---- MODULE Spec2Model ----
(***************************************************************************)
(* Reconciliation of inspection records into the customer registry         *)
(* (registry_updater.py) as a state machine.                               *)
(*                                                                         *)
(* One behaviour is one call: update_customer_registry(path, batch), a     *)
(* direct call of _save_updated_registry_with_full_preservation (Spec),    *)
(* extract_data_from_inspection_file(path) of inspection_parser.py         *)
(* (SpecExtract), col_to_index(col_letter) (SpecColumns), or one chain of  *)
(* coordinate reads / one call of get_cell_value (SpecCells).              *)
(* Python values are tagged records, so that None, "", 7 and "7" stay      *)
(* distinct and str() / truthiness / pd.notna are real conversions.        *)
(* DataFrame positions are 1-based here (0-based in pandas).               *)
(***************************************************************************)
EXTENDS Integers, Sequences, FiniteSets, TLC

VARIABLES
    entry,              \* which function the caller invoked
    regfile,            \* what is at registry_path: missing | corrupt | nosheet | ok
    registry,           \* data rows of sheet "Kaikki" (below the header row)
    inspection_data,    \* the batch of inspection records
    pc,                 \* position in the call
    df_existing,        \* the DataFrame object update_customer_registry holds
    df_proc,            \* what the name df_existing denotes inside _process_inspection_data
    same_object,        \* TRUE while both names denote one DataFrame object
    i,                  \* position of the next record of the batch
    processed_records,  \* results built by _process_inspection_data
    found_idxs,         \* found_idx of each record processed so far (NotFound where none)
    primary_attempts,   \* times the structure-preserving write was started
    simple_attempts,    \* times _save_updated_registry_simple was started
    output_file,        \* what is stored at OUTPUT_FILE
    save_raised,        \* the writer call ended by raising to its caller
    ret,                \* value returned by update_customer_registry
    inspection_file,    \* what is at file_path: unreadable, or the first sheet as a grid
    xpc,                \* position in extract_data_from_inspection_file
    coordinate_data,    \* dict returned by extract_data_by_coordinates
    text_based,         \* the label-based extraction functions were entered
    extracted,          \* record returned by extract_data_from_inspection_file
    col_letter,         \* argument of col_to_index
    index,              \* value returned by col_to_index
    lookup,             \* what one chain of coordinate reads looks up
    strategy,           \* the strategy that chain tries next
    reads               \* the calls of get_cell_value made so far, with their results

update_vars == <<entry, regfile, registry, inspection_data, pc, df_existing, df_proc,
                 same_object, i, processed_records, found_idxs, primary_attempts,
                 simple_attempts, output_file, save_raised, ret>>

extraction_vars == <<inspection_file, xpc, coordinate_data, text_based, extracted>>

column_vars == <<col_letter, index>>

cell_vars == <<lookup, strategy, reads>>

vars == <<update_vars, extraction_vars, column_vars, cell_vars>>

----------------------------------------------------------------------------
(* Bounds of the model                                                     *)

MaxRows == 2

MaxBatch == 2

----------------------------------------------------------------------------
(* Python values                                                           *)

None == [t |-> "None"]

S(s) == [t |-> "str", s |-> s]

I(n) == [t |-> "int", n |-> n]

B(b) == [t |-> "bool", b |-> b]

D(y, m, d) == [t |-> "date", y |-> y, m |-> m, d |-> d]

Pad2(n) == IF n < 10 THEN "0" \o ToString(n) ELSE ToString(n)

\* bool(v): the truth value Python gives v in `if v` / `not v`
Truthy(v) ==
    CASE v.t = "None" -> FALSE
      [] v.t = "str"  -> v.s # ""
      [] v.t = "int"  -> v.n # 0
      [] v.t = "bool" -> v.b
      [] v.t = "date" -> TRUE

\* str(v)
Str(v) ==
    CASE v.t = "None" -> "None"
      [] v.t = "str"  -> v.s
      [] v.t = "int"  -> ToString(v.n)
      [] v.t = "bool" -> IF v.b THEN "True" ELSE "False"
      [] v.t = "date" -> ToString(v.y) \o "-" \o Pad2(v.m) \o "-" \o Pad2(v.d) \o " 00:00:00"

\* pd.notna(v); an empty cell is None (NaN in a numeric column)
notna(v) == v.t # "None"

\* dict.get(key) and dict.get(key, default), also Series.get
Get(d, key) == IF key \in DOMAIN d THEN d[key] ELSE None

GetOr(d, key, default) == IF key \in DOMAIN d THEN d[key] ELSE default

\* month and day swapped: "%m.%d.%Y"
strftime_mdY(v) == S(Pad2(v.m) \o "." \o Pad2(v.d) \o "." \o ToString(v.y))

\* datetime.strftime("%d.%m.%Y")
strftime_dmY(v) == S(Pad2(v.d) \o "." \o Pad2(v.m) \o "." \o ToString(v.y))

----------------------------------------------------------------------------
(* Registry table                                                          *)

\* keys of new_data, in the order the code writes them
TargetColumns ==
    {"Aktiivinen", "Tilaaja", "Tilaajan laite", "Laitteen nimi",
     "Laitteen sarjanumero", "Tarkastettu", "Seuraava tarkastus",
     "Seuraava kympitys", "Huollettu/korjattu", "Työmaa", "Lisätieto",
     "Verkkolaskutus1", "Verkkolaskutus2", "Maksuehto", "Tarkastuspöytäkirja"}

\* header row of sheet "Kaikki" in the registry file: one column the updater
\* does not know ("Asiakasnumero"), one target column not in the file ("Maksuehto")
header == (TargetColumns \ {"Maksuehto"}) \cup {"Asiakasnumero"}

\* a data row of the sheet, as dict(zip(header, row))
RegistryRow(serial, model) ==
    [c \in header |->
        CASE c = "Laitteen sarjanumero" -> serial
          [] c = "Laitteen nimi"        -> model
          [] c = "Aktiivinen"           -> B(FALSE)
          [] c = "Tilaaja"              -> S("OldCo")
          [] c = "Tarkastettu"          -> S("01.01.2020")
          [] c = "Lisätieto"            -> S("huom")
          [] c = "Asiakasnumero"        -> I(42)
          [] OTHER                      -> None]

RegistryRows ==
    { RegistryRow(S("SN001"), S("CraneX")),
      RegistryRow(S("SN001"), None),
      RegistryRow(S("7"), S("CraneX")),
      RegistryRow(None, S("CraneX")) }

RECURSIVE SeqsUpTo(_, _)
SeqsUpTo(set, n) ==
    IF n = 0 THEN {<<>>}
    ELSE LET shorter == SeqsUpTo(set, n - 1)
         IN  shorter \cup {Append(q, x) : q \in {s \in shorter : Len(s) = n - 1}, x \in set}

Registries == SeqsUpTo(RegistryRows, MaxRows)

\* pd.DataFrame(data): a list of no dicts gives a frame without columns
DataFrame(data) ==
    IF data = <<>> THEN [columns |-> {}, rows |-> <<>>]
    ELSE [columns |-> header, rows |-> data]

\* the emptiness test that never fires
empty_never(df) == Len(df.rows) < 0

\* DataFrame.empty: no rows or no columns
empty(df) == Len(df.rows) = 0 \/ df.columns = {}

----------------------------------------------------------------------------
(* Inspection records                                                      *)

\* the year advanced and the day of the month kept
next_date_same_day(v) == D(v.y + 1, v.m, v.d)

\* inspection_date.replace(year=inspection_date.year + 1, day=1)
next_date(v) == D(v.y + 1, v.m, 1)

\* record returned by extract_data_from_inspection_file without error
InspectionRecord(filename, serial, model, date, owner, kympitys) ==
    [ inspection_type      |-> S("Määräaikaistarkastus"),
      inspection_date      |-> date,
      next_inspection_date |-> IF date = None THEN None ELSE next_date(date),
      kympitys_date        |-> kympitys,
      model                |-> model,
      serial_number        |-> serial,
      owner                |-> owner,
      owner_address        |-> None,
      inspection_result    |-> None,
      filename             |-> S(filename) ]

\* record returned when extraction raised
ErrorRecord(filename) == [error |-> S("boom"), filename |-> S(filename)]

FileName(k) == "file" \o ToString(k) \o ".xlsx"

\* the records the k-th uploaded file can yield
Records(k) ==
    { ErrorRecord(FileName(k)),
      InspectionRecord(FileName(k), None, None, None, None, None),
      InspectionRecord(FileName(k), S("SN001"), S("CraneX"), D(2025, 6, 15), S("Acme"), None),
      InspectionRecord(FileName(k), S("SN001"), None, D(2025, 6, 15), None, None),
      InspectionRecord(FileName(k), S("SN001"), S("CraneY"), D(2024, 2, 29), S("Acme"), D(2030, 6, 1)),
      InspectionRecord(FileName(k), S("SN999"), S("CraneX"), D(2025, 6, 15), S("Acme"), None),
      InspectionRecord(FileName(k), I(7), S("CraneX"), None, None, None),
      InspectionRecord(FileName(k), S(""), S("CraneX"), D(2025, 6, 15), None, None) }

RECURSIVE BatchesOf(_)
BatchesOf(n) ==
    IF n = 0 THEN {<<>>}
    ELSE {Append(q, x) : q \in BatchesOf(n - 1), x \in Records(n)}

\* main.py hands over at least one record
Batches == UNION {BatchesOf(n) : n \in 1..MaxBatch}

----------------------------------------------------------------------------
(* _find_existing_device                                                   *)

\* `return None`; rows are numbered from 1
NotFound == 0

\* str(data.get(key, "")) if data.get(key) is not None else ""
to_find(data, key) == IF Get(data, key) # None THEN Str(GetOr(data, key, S(""))) ELSE ""

\* str(row.get(col, "")) if pd.notna(row.get(col, "")) else ""
row_text(row, col) == IF notna(GetOr(row, col, S(""))) THEN Str(GetOr(row, col, S(""))) ELSE ""

\* the comparison left out: any two non-empty serial numbers match
serial_present(row_serial, serial_to_find) ==
    row_serial # "" /\ serial_to_find # ""

\* row_serial and serial_to_find and row_serial == serial_to_find
serial_matches(row_serial, serial_to_find) ==
    row_serial # "" /\ serial_to_find # "" /\ row_serial = serial_to_find

\* the model never looked at
model_ignored(row_model, model_to_find) == TRUE

\* not row_model or not model_to_find or row_model == model_to_find
model_matches(row_model, model_to_find) ==
    row_model = "" \/ model_to_find = "" \/ row_model = model_to_find

\* the search given up at the first row with the serial number and another model
RECURSIVE iterrows_blocking(_, _, _, _)
iterrows_blocking(df, idx, serial_to_find, model_to_find) ==
    IF idx > Len(df.rows) THEN NotFound
    ELSE IF serial_matches(row_text(df.rows[idx], "Laitteen sarjanumero"), serial_to_find)
         THEN IF model_matches(row_text(df.rows[idx], "Laitteen nimi"), model_to_find)
              THEN idx
              ELSE NotFound
         ELSE iterrows_blocking(df, idx + 1, serial_to_find, model_to_find)

\* for idx, row in df.iterrows(), from position idx on
RECURSIVE iterrows(_, _, _, _)
iterrows(df, idx, serial_to_find, model_to_find) ==
    IF idx > Len(df.rows) THEN NotFound
    ELSE IF /\ serial_matches(row_text(df.rows[idx], "Laitteen sarjanumero"), serial_to_find)
            /\ model_matches(row_text(df.rows[idx], "Laitteen nimi"), model_to_find)
         THEN idx
         ELSE iterrows(df, idx + 1, serial_to_find, model_to_find)

\* both texts compared as they are, an empty serial number included
_find_by_text(df, data) ==
    LET hits == {k \in 1..Len(df.rows) :
                    /\ row_text(df.rows[k], "Laitteen sarjanumero") = to_find(data, "serial_number")
                    /\ model_matches(row_text(df.rows[k], "Laitteen nimi"), to_find(data, "model"))}
    IN  IF hits = {} THEN NotFound ELSE CHOOSE k \in hits : \A h \in hits : k <= h

_find_existing_device(df, data) ==
    IF to_find(data, "serial_number") = "" THEN NotFound
    ELSE iterrows(df, 1, to_find(data, "serial_number"), to_find(data, "model"))

----------------------------------------------------------------------------
(* _process_inspection_data                                                *)

\* data["x"].strftime("%d.%m.%Y") if data.get("x") else None
formatted(data, key) ==
    IF Truthy(Get(data, key)) THEN strftime_dmY(data[key]) ELSE None

new_data(data, filename) ==
    [c \in TargetColumns |->
        CASE c = "Aktiivinen"           -> B(TRUE)
          [] c = "Tilaaja"              -> Get(data, "owner")
          [] c = "Laitteen nimi"        -> Get(data, "model")
          [] c = "Laitteen sarjanumero" -> Get(data, "serial_number")
          [] c = "Tarkastettu"          -> formatted(data, "inspection_date")
          [] c = "Seuraava tarkastus"   -> formatted(data, "next_inspection_date")
          [] c = "Seuraava kympitys"    -> formatted(data, "kympitys_date")
          [] c = "Työmaa"               -> Get(data, "owner")
          [] c = "Tarkastuspöytäkirja"  -> filename
          [] OTHER                      -> None]

\* the values assigned to the columns, df[key] = value: every row receives them
at_update_every_row(df, found_idx, values) ==
    [df EXCEPT !.rows =
        [n \in 1..Len(df.rows) |->
            [c \in df.columns |-> IF c \in DOMAIN values THEN values[c] ELSE df.rows[n][c]]]]

\* for key, value in new_data.items(): if key in df.columns: df.at[found_idx, key] = value
at_update(df, found_idx, values) ==
    [df EXCEPT !.rows[found_idx] =
        [c \in df.columns |-> IF c \in DOMAIN values THEN values[c] ELSE @[c]]]

\* new_row: every column of the frame None, then the keys of new_data it has
new_row(df, values) ==
    [c \in df.columns |-> IF c \in DOMAIN values THEN values[c] ELSE None]

\* pd.concat([df, pd.DataFrame([row])], ignore_index=True): a new frame
concat(df, row) == [df EXCEPT !.rows = Append(@, row)]

\* the record's own error text replaced by a fixed message
error_result_fixed(data, filename) ==
    [status |-> "Error", message |-> S("Extraction failed"), filename |-> filename]

error_result(data, filename) ==
    [status |-> "Error", message |-> data["error"], filename |-> filename]

device_result(status, data, filename) ==
    [status        |-> status,
     serial_number |-> Get(data, "serial_number"),
     model         |-> Get(data, "model"),
     owner         |-> Get(data, "owner"),
     filename      |-> filename]

\* processed_records.insert(0, result)
insert_result(results, result) == <<result>> \o results

\* processed_records.append(result)
append_result(results, result) == Append(results, result)

\* One iteration of `for data in inspection_data`, on a frame
\*   obj  : the DataFrame object the caller passed in
\*   loc  : the DataFrame the local name df_existing denotes
\*   same : loc is obj (no pd.concat has rebound the local name yet)
process_record(fr, data) ==
    LET filename  == GetOr(data, "filename", S("unknown"))
        found_idx == _find_existing_device(fr.loc, data)
        values    == new_data(data, filename)
    IN  IF "error" \in DOMAIN data
        THEN [fr EXCEPT !.results = append_result(@, error_result(data, filename)),
                        !.found = Append(@, NotFound)]
        ELSE IF found_idx # NotFound
        THEN [obj     |-> IF fr.same THEN at_update(fr.obj, found_idx, values) ELSE fr.obj,
              loc     |-> at_update(fr.loc, found_idx, values),
              same    |-> fr.same,
              results |-> append_result(fr.results, device_result("Updated", data, filename)),
              found   |-> Append(fr.found, found_idx)]
        ELSE [obj     |-> fr.obj,
              loc     |-> concat(fr.loc, new_row(fr.loc, values)),
              same    |-> FALSE,
              results |-> append_result(fr.results, device_result("Added", data, filename)),
              found   |-> Append(fr.found, NotFound)]

RECURSIVE process_from(_, _, _)
process_from(fr, batch, k) ==
    IF k > Len(batch) THEN fr
    ELSE process_from(process_record(fr, batch[k]), batch, k + 1)

\* the whole call: afterwards the caller sees .obj and the returned .results
_process_inspection_data(df, batch) ==
    process_from([obj |-> df, loc |-> df, same |-> TRUE, results |-> <<>>, found |-> <<>>],
                 batch, 1)

----------------------------------------------------------------------------
(* Python strings, where the parser looks at their characters              *)

\* longest column name given to col_to_index
MaxLetters == 2

\* the characters of the string literals and cell texts of the model
characters(s) ==
    CASE s = "F-0:11" -> <<"F", "-", "0", ":", "1", "1">>
      [] s = "G-0:12" -> <<"G", "-", "0", ":", "1", "2">>
      [] s = "AD-AG:6" -> <<"A", "D", "-", "A", "G", ":", "6">>
      [] s = "Y-AB:6" -> <<"Y", "-", "A", "B", ":", "6">>
      [] s = "AB-AD:58" -> <<"A", "B", "-", "A", "D", ":", "5", "8">>
      [] s = "Y-Z:58" -> <<"Y", "-", "Z", ":", "5", "8">>
      [] s = "F" -> <<"F">>
      [] s = "G" -> <<"G">>
      [] s = "AD" -> <<"A", "D">>
      [] s = "Y" -> <<"Y">>
      [] s = "AB" -> <<"A", "B">>
      [] s = "2025" -> <<"2", "0", "2", "5">>
      [] s = " 2025 " -> <<" ", "2", "0", "2", "5", " ">>
      [] s = "abc" -> <<"a", "b", "c">>
      [] s = "6" -> <<"6">>
      [] s = "kesä" -> <<"k", "e", "s", "ä">>
      [] s = "15.06.2025" -> <<"1", "5", ".", "0", "6", ".", "2", "0", "2", "5">>
      [] s = "31.02.2025" -> <<"3", "1", ".", "0", "2", ".", "2", "0", "2", "5">>
      [] s = "2025-06-15" -> <<"2", "0", "2", "5", "-", "0", "6", "-", "1", "5">>
      [] s = "soon" -> <<"s", "o", "o", "n">>
      [] s = "31.02.2025/ Helsinki" -> <<"3", "1", ".", "0", "2", ".", "2", "0", "2", "5", "/", " ", "H", "e", "l", "s", "i", "n", "k", "i">>
      [] s = "15.06.2025/ Helsinki" -> <<"1", "5", ".", "0", "6", ".", "2", "0", "2", "5", "/", " ", "H", "e", "l", "s", "i", "n", "k", "i">>
      [] s = "Paikka ja pvm" -> <<"P", "a", "i", "k", "k", "a", " ", "j", "a", " ", "p", "v", "m">>
      [] s = "Seuraava määräaikaistarkastus" -> <<"S", "e", "u", "r", "a", "a", "v", "a", " ", "m", "ä", "ä", "r", "ä", "a", "i", "k", "a", "i", "s", "t", "a", "r", "k", "a", "s", "t", "u", "s">>
      [] s = "NOSTIMEN PERUSTIEDOT" -> <<"N", "O", "S", "T", "I", "M", "E", "N", " ", "P", "E", "R", "U", "S", "T", "I", "E", "D", "O", "T">>
      [] s = "PUUTTEET JA HUOMAUTUKSET" -> <<"P", "U", "U", "T", "T", "E", "E", "T", " ", "J", "A", " ", "H", "U", "O", "M", "A", "U", "T", "U", "K", "S", "E", "T">>
      [] s = "laite on käyttökunnossa" -> <<"l", "a", "i", "t", "e", " ", "o", "n", " ", "k", "ä", "y", "t", "t", "ö", "k", "u", "n", "n", "o", "s", "s", "a">>
      [] s = "käyttökunnossa" -> <<"k", "ä", "y", "t", "t", "ö", "k", "u", "n", "n", "o", "s", "s", "a">>
      [] s = "korjattava" -> <<"k", "o", "r", "j", "a", "t", "t", "a", "v", "a">>
      [] s = "ei ole käyttökunnossa" -> <<"e", "i", " ", "o", "l", "e", " ", "k", "ä", "y", "t", "t", "ö", "k", "u", "n", "n", "o", "s", "s", "a">>

Uppercase ==
    <<"A", "B", "C", "D", "E", "F", "G", "H", "I", "J", "K", "L", "M",
      "N", "O", "P", "Q", "R", "S", "T", "U", "V", "W", "X", "Y", "Z">>

Lowercase ==
    <<"a", "b", "c", "d", "e", "f", "g", "h", "i", "j", "k", "l", "m",
      "n", "o", "p", "q", "r", "s", "t", "u", "v", "w", "x", "y", "z">>

Digits == <<"0", "1", "2", "3", "4", "5", "6", "7", "8", "9">>

PositionIn(seq, c) == CHOOSE k \in 1..Len(seq) : seq[k] = c

\* c.upper()
upper(c) ==
    IF \E k \in 1..Len(Lowercase) : Lowercase[k] = c
    THEN Uppercase[PositionIn(Lowercase, c)]
    ELSE c

\* ord(c), for the letters "A".."Z"
ord(c) == 64 + PositionIn(Uppercase, c)

\* reversed(chars)
reversed(chars) == [k \in 1..Len(chars) |-> chars[Len(chars) + 1 - k]]

\* ch in chars
contains_char(chars, ch) == \E k \in 1..Len(chars) : chars[k] = ch

\* needle in chars
contains(chars, needle) ==
    \E k \in 0..(Len(chars) - Len(needle)) : SubSeq(chars, k + 1, k + Len(needle)) = needle

\* chars.split(ch)
RECURSIVE split(_, _)
split(chars, ch) ==
    IF ~contains_char(chars, ch) THEN <<chars>>
    ELSE LET k == CHOOSE k \in 1..Len(chars) :
                      chars[k] = ch /\ \A j \in 1..(k - 1) : chars[j] # ch
         IN  <<SubSeq(chars, 1, k - 1)>> \o split(SubSeq(chars, k + 1, Len(chars)), ch)

\* chars.strip()
RECURSIVE strip(_)
strip(chars) ==
    IF chars = <<>> THEN chars
    ELSE IF chars[1] = " " THEN strip(Tail(chars))
    ELSE IF chars[Len(chars)] = " " THEN strip(SubSeq(chars, 1, Len(chars) - 1))
    ELSE chars

\* chars.isdigit()
isdigit(chars) ==
    chars # <<>> /\ \A k \in 1..Len(chars) : \E d \in 1..Len(Digits) : Digits[d] = chars[k]

RECURSIVE digits_value(_)
digits_value(chars) ==
    IF chars = <<>> THEN 0
    ELSE 10 * digits_value(SubSeq(chars, 1, Len(chars) - 1))
            + (PositionIn(Digits, chars[Len(chars)]) - 1)

ValueError == [t |-> "ValueError"]

\* int(chars): surrounding blanks allowed, digits only, else ValueError
int(chars) ==
    IF isdigit(strip(chars)) THEN I(digits_value(strip(chars))) ELSE ValueError

----------------------------------------------------------------------------
(* col_to_index (inside extract_data_by_coordinates)                       *)

\* sum((ord(c.upper()) - ord('A') + 1) * 26 ** i for i, c in enumerate(letters))
RECURSIVE place_sum(_, _)
place_sum(letters, k) ==
    IF k > Len(letters) THEN 0
    ELSE (ord(upper(letters[k])) - ord("A") + 1) * 26 ^ (k - 1) + place_sum(letters, k + 1)

\* the letters weighted from the left: reversed() left out
col_to_index_unreversed(chars) == place_sum(chars, 1) - 1

col_to_index(chars) == place_sum(reversed(chars), 1) - 1

\* the column names of up to n letters, all upper or all lower case
RECURSIVE LetterSeqs(_, _)
LetterSeqs(alphabet, n) ==
    IF n = 0 THEN {<<>>}
    ELSE LetterSeqs(alphabet, n - 1)
            \cup {Append(q, alphabet[k]) : q \in {s \in LetterSeqs(alphabet, n - 1) : Len(s) = n - 1},
                                           k \in 1..Len(alphabet)}

ColumnNames ==
    (LetterSeqs(Uppercase, MaxLetters) \cup LetterSeqs(Lowercase, MaxLetters)) \ {<<>>}

\* no call of col_to_index in this behaviour
ColumnIdle == col_letter = <<>> /\ index = None

----------------------------------------------------------------------------
(* The inspection sheet: df = pd.read_excel(file_path, sheet_name=0,       *)
(* header=None). Rows and columns are numbered from 0, as df.iloc does.    *)

\* a float cell holding the whole number n
Fl(n) == [t |-> "float", n |-> n]

Unreadable == [readable |-> FALSE]

\* a grid of nrows x ncols cells; the cells not listed are NaN
Sheet(nrows, ncols, cells) ==
    [readable |-> TRUE, nrows |-> nrows, ncols |-> ncols,
     cells |-> [p \in {q \in DOMAIN cells : q[1] < nrows /\ q[2] < ncols /\ cells[q] # None}
                    |-> cells[p]]]

\* row < df.shape[0] and col < df.shape[1], for indices that are not negative
in_bounds(sheet, row, col) ==
    row >= 0 /\ row < sheet.nrows /\ col >= 0 /\ col < sheet.ncols

\* df.iloc[row, col] inside the grid
iloc(sheet, row, col) ==
    IF <<row, col>> \in DOMAIN sheet.cells THEN sheet.cells[<<row, col>>] ELSE None

----------------------------------------------------------------------------
(* extract_data_by_coordinates                                             *)

\* parse_cell_ref(ref): (row_index, col_index), or (None, None)
parse_cell_ref(ref) ==
    LET parts == IF contains_char(characters(ref), ":")
                 THEN split(characters(ref), ":")
                 ELSE <<characters(ref), <<"0">>>>
    IN  IF Len(parts) # 2 THEN <<None, None>>
        ELSE IF contains_char(parts[1], "-") /\ Len(split(parts[1], "-")) # 2 THEN <<None, None>>
        ELSE IF int(parts[2]) = ValueError THEN <<None, None>>
        ELSE <<I(int(parts[2]).n - 1), I(col_to_index(split(parts[1], "-")[1]))>>

\* the row number of the reference taken as the index, without the - 1
alt_parse_cell_ref_row_kept(ref) ==
    IF ~contains_char(characters(ref), ":") THEN <<None, None>>
    ELSE LET parts == split(characters(ref), ":")
         IN  IF Len(parts) # 2 THEN <<None, None>>
             ELSE IF int(parts[2]) = ValueError THEN <<None, None>>
             ELSE <<I(int(parts[2]).n), I(col_to_index(split(parts[1], "-")[1]))>>

\* alt_parse_cell_ref(ref)
alt_parse_cell_ref(ref) ==
    IF ~contains_char(characters(ref), ":") THEN <<None, None>>
    ELSE LET parts == split(characters(ref), ":")
         IN  IF Len(parts) # 2 THEN <<None, None>>
             ELSE IF int(parts[2]) = ValueError THEN <<None, None>>
             ELSE <<I(int(parts[2]).n - 1), I(col_to_index(split(parts[1], "-")[1]))>>

\* df.iloc[row, col] reached without the test of the bounds, its exception let through
get_cell_value_unchecked(sheet, row, col) ==
    IF row = None \/ col = None THEN None
    ELSE IF ~in_bounds(sheet, row.n, col.n) THEN [t |-> "IndexError"]
    ELSE iloc(sheet, row.n, col.n)

\* get_cell_value(row, col, label)
get_cell_value(sheet, row, col) ==
    IF row = None \/ col = None THEN None
    ELSE IF ~in_bounds(sheet, row.n, col.n) THEN None
    ELSE iloc(sheet, row.n, col.n)

\* the five chains of the coordinate pass: the references given to the two
\* parsers and the column / row pairs of the direct reads
Lookups ==
    { [name |-> "model",           refs |-> <<"F-0:11">>,  direct |-> << <<"F", 10>> >>],
      [name |-> "serial_number",   refs |-> <<"G-0:12">>,  direct |-> << <<"G", 11>> >>],
      [name |-> "inspection_date", refs |-> <<"AD-AG:6">>, direct |-> << <<"AD", 5>> >>],
      [name |-> "owner",           refs |-> <<"Y-AB:6">>,  direct |-> << <<"Y", 5>> >>],
      [name |-> "kympitys",        refs |-> <<"AB-AD:58", "Y-Z:58">>,
                                   direct |-> << <<"AB", 57>>, <<"Y", 57>> >>] }

\* (row, col) a strategy hands to get_cell_value for the k-th cell of a chain
resolved(by, chain, k) ==
    CASE by = "parse_cell_ref"     -> parse_cell_ref(chain.refs[k])
      [] by = "alt_parse_cell_ref" -> alt_parse_cell_ref(chain.refs[k])
      [] by = "direct"             -> <<I(chain.direct[k][2]),
                                        I(col_to_index(characters(chain.direct[k][1])))>>

\* one call of get_cell_value and what it returned
read(sheet, by, at, row, col) ==
    [by |-> by, at |-> at, row |-> row, col |-> col, value |-> get_cell_value(sheet, row, col)]

\* the strategy tried when `by` has returned nothing
next_strategy(by) ==
    CASE by = "parse_cell_ref"     -> "alt_parse_cell_ref"
      [] by = "alt_parse_cell_ref" -> "direct"
      [] by = "direct"             -> "done"

\* the arguments of a call of get_cell_value on its own
ProbeIndices == {None, I(-1), I(0), I(5), I(17), I(18), I(57), I(58)}

\* no chain of reads in this behaviour
CellIdle == lookup = None /\ strategy = "idle" /\ reads = <<>>

\* the chain of three reads used for model, serial number, date and owner
coordinate_value(sheet, ref, direct_col, direct_row) ==
    LET first  == get_cell_value(sheet, parse_cell_ref(ref)[1], parse_cell_ref(ref)[2])
        second == get_cell_value(sheet, alt_parse_cell_ref(ref)[1], alt_parse_cell_ref(ref)[2])
        third  == get_cell_value(sheet, I(direct_row), I(col_to_index(characters(direct_col))))
    IN  IF first # None THEN first
        ELSE IF second # None THEN second
        ELSE third

\* the chain for the two kympitys cells: <<year_cell, month_cell>>
kympitys_cells(sheet) ==
    LET first  == <<get_cell_value(sheet, parse_cell_ref("AB-AD:58")[1], parse_cell_ref("AB-AD:58")[2]),
                    get_cell_value(sheet, parse_cell_ref("Y-Z:58")[1], parse_cell_ref("Y-Z:58")[2])>>
        second == <<get_cell_value(sheet, alt_parse_cell_ref("AB-AD:58")[1], alt_parse_cell_ref("AB-AD:58")[2]),
                    get_cell_value(sheet, alt_parse_cell_ref("Y-Z:58")[1], alt_parse_cell_ref("Y-Z:58")[2])>>
        third  == <<get_cell_value(sheet, I(57), I(col_to_index(characters("AB")))),
                    get_cell_value(sheet, I(57), I(col_to_index(characters("Y"))))>>
    IN  IF first[1] # None /\ first[2] # None THEN first
        ELSE IF second[1] # None /\ second[2] # None THEN second
        ELSE third

is_leap(y) == (y % 4 = 0 /\ y % 100 # 0) \/ y % 400 = 0

days_in_month(y, m) ==
    IF m = 2 THEN (IF is_leap(y) THEN 29 ELSE 28)
    ELSE IF m \in {4, 6, 9, 11} THEN 30
    ELSE 31

\* datetime(year, month, day): the date, or ValueError
datetime(year, month, day) ==
    IF /\ year >= 1 /\ year <= 9999
       /\ month >= 1 /\ month <= 12
       /\ day >= 1 /\ day <= days_in_month(year, month)
    THEN D(year, month, day)
    ELSE ValueError

\* day, month, year = map(int, parts); datetime(year, month, day)
date_of_parts(parts) ==
    IF Len(parts) # 3 THEN ValueError
    ELSE IF \E k \in 1..3 : int(parts[k]) = ValueError THEN ValueError
    ELSE datetime(int(parts[3]).n, int(parts[2]).n, int(parts[1]).n)

\* pd.to_datetime(text).to_pydatetime(), for texts without '.': the form
\* yyyy-mm-dd is read, the other texts of the model raise
to_datetime(chars) ==
    LET parts == split(chars, "-")
    IN  IF Len(parts) # 3 THEN ValueError
        ELSE IF \E k \in 1..3 : ~isdigit(parts[k]) THEN ValueError
        ELSE datetime(digits_value(parts[1]), digits_value(parts[2]), digits_value(parts[3]))

\* inspection_date from date_cell; every exception is caught and gives None
coordinate_date(date_cell) ==
    IF date_cell = None THEN None
    ELSE IF date_cell.t = "date" THEN date_cell
    ELSE IF date_cell.t # "str" THEN None
    ELSE IF contains_char(characters(date_cell.s), ".")
         THEN IF Len(split(characters(date_cell.s), ".")) < 3 THEN None
              ELSE IF date_of_parts(split(characters(date_cell.s), ".")) = ValueError THEN None
              ELSE date_of_parts(split(characters(date_cell.s), "."))
    ELSE IF to_datetime(characters(date_cell.s)) = ValueError THEN None
    ELSE to_datetime(characters(date_cell.s))

\* only number cells are converted, a text is never read as a number
cell_int_numbers_only(cell) ==
    IF cell.t \in {"int", "float"} THEN I(cell.n) ELSE None

\* year / month from its cell: int(cell) for a number, int(cell.strip()) for
\* a text of digits, else None
cell_int(cell) ==
    IF cell.t \in {"int", "float"} THEN I(cell.n)
    ELSE IF cell.t = "str" /\ strip(characters(cell.s)) # <<>> /\ isdigit(strip(characters(cell.s)))
         THEN int(strip(characters(cell.s)))
    ELSE None

\* kympitys_date from the two cells, or None; every exception is caught
kympitys_date(year_cell, month_cell) ==
    IF year_cell = None \/ month_cell = None THEN None
    ELSE LET year  == cell_int(year_cell)
             month == cell_int(month_cell)
         IN  IF Truthy(year) /\ Truthy(month) /\ 1 <= month.n /\ month.n <= 12
             THEN IF datetime(year.n, month.n, 1) = ValueError THEN None
                  ELSE datetime(year.n, month.n, 1)
             ELSE None

\* a dict without keys
empty_dict == [k \in {} |-> None]

\* if value is not None: result[key] = value
entry_of(key, value) == IF value # None THEN key :> value ELSE empty_dict

\* inspection_date.replace(year=inspection_date.year + 1, day=1) raises ValueError
replace_raises(date) == date # None /\ date.y + 1 > 9999

\* the dict extract_data_by_coordinates returns, or ValueError when it raises
extract_data_by_coordinates(sheet) ==
    LET model  == coordinate_value(sheet, "F-0:11", "F", 10)
        serial == coordinate_value(sheet, "G-0:12", "G", 11)
        date   == coordinate_date(coordinate_value(sheet, "AD-AG:6", "AD", 5))
        owner  == coordinate_value(sheet, "Y-AB:6", "Y", 5)
        cells  == kympitys_cells(sheet)
    IN  IF replace_raises(date) THEN ValueError
        ELSE entry_of("model", model)
                @@ entry_of("serial_number", serial)
                @@ entry_of("inspection_date", date)
                @@ entry_of("next_inspection_date", IF date = None THEN None ELSE next_date(date))
                @@ entry_of("owner", owner)
                @@ entry_of("kympitys_date", kympitys_date(cells[1], cells[2]))

----------------------------------------------------------------------------
(* The label-based extraction functions                                    *)

IndexError == [t |-> "IndexError"]

\* for i in range(3): if pd.notna(df.iloc[i, 18]): ... ; from row k on
RECURSIVE type_scan(_, _)
type_scan(sheet, k) ==
    IF k >= 3 THEN S("Määräaikaistarkastus")
    ELSE IF ~in_bounds(sheet, k, 18) THEN IndexError
    ELSE IF notna(iloc(sheet, k, 18)) THEN iloc(sheet, k, 18)
    ELSE type_scan(sheet, k + 1)

\* the inspection type, or IndexError when df.iloc[i, 18] is outside the grid
_extract_inspection_type(sheet) == type_scan(sheet, 0)

\* pd.notna(cell) and isinstance(cell, str) and label in cell
is_label(sheet, row, col, label) ==
    /\ notna(iloc(sheet, row, col))
    /\ iloc(sheet, row, col).t = "str"
    /\ contains(characters(iloc(sheet, row, col).s), characters(label))

\* the first row of a scan that carries the label, or None
first_row(rows) ==
    IF rows = {} THEN None ELSE I(CHOOSE r \in rows : \A h \in rows : r <= h)

\* the cell, if it is inside the grid and not NaN
value_at(sheet, row, col) ==
    IF row < sheet.nrows /\ col < sheet.ncols /\ notna(iloc(sheet, row, col))
    THEN iloc(sheet, row, col)
    ELSE None

\* the date of a cell "dd.mm.yyyy/ place"; every exception gives None
label_date(cell) ==
    IF ~Truthy(cell) THEN None
    ELSE IF cell.t = "date" THEN cell
    ELSE IF cell.t # "str" THEN None
    ELSE LET parts == split(characters(cell.s), "/")
         IN  IF Len(parts) < 2 THEN None
             ELSE IF ~contains_char(strip(parts[1]), ".") THEN None
             ELSE IF Len(split(strip(parts[1]), ".")) < 3 THEN None
             ELSE IF date_of_parts(split(strip(parts[1]), ".")) = ValueError THEN None
             ELSE date_of_parts(split(strip(parts[1]), "."))

_extract_inspection_date(sheet) ==
    LET found == first_row({r \in 5..9 : r < sheet.nrows /\ is_label(sheet, r, 16, "Paikka ja pvm")})
    IN  IF found = None THEN None
        ELSE label_date(value_at(sheet, found.n, 18))

_extract_next_inspection_date(sheet) ==
    LET found == first_row({r \in (sheet.nrows - 10)..(sheet.nrows - 1) :
                               /\ r >= 0
                               /\ 15 < sheet.ncols
                               /\ is_label(sheet, r, 15, "Seuraava määräaikaistarkastus")})
    IN  IF found = None THEN None
        ELSE IF value_at(sheet, found.n, 18).t = "date" THEN value_at(sheet, found.n, 18)
        ELSE None

_extract_device_info(sheet) ==
    LET found == first_row({r \in 10..19 : r < sheet.nrows /\ is_label(sheet, r, 0, "NOSTIMEN PERUSTIEDOT")})
    IN  IF found = None
        THEN [manufacturer |-> None, model |-> None, serial_number |-> None,
              owner |-> None, owner_address |-> None]
        ELSE [manufacturer  |-> value_at(sheet, found.n + 1, 18),
              model         |-> value_at(sheet, found.n + 2, 2),
              serial_number |-> value_at(sheet, found.n + 3, 2),
              owner         |-> value_at(sheet, found.n + 2, 18),
              owner_address |-> value_at(sheet, found.n + 3, 18)]

\* pd.notna(cell) and cell == 1
is_one(cell) ==
    \/ cell.t \in {"int", "float"} /\ cell.n = 1
    \/ cell.t = "bool" /\ cell.b

\* the result read from the text of column 15
result_of_text(chars) ==
    IF contains(chars, characters("käyttökunnossa")) THEN S("Käyttökunnossa")
    ELSE IF contains(chars, characters("korjattava")) THEN S("Korjattava")
    ELSE IF contains(chars, characters("ei ole käyttökunnossa")) THEN S("Ei käyttökunnossa")
    ELSE None

\* the text of column 15 consulted before the marks
_extract_inspection_result_text_first(sheet) ==
    LET found == first_row({r \in (sheet.nrows - 30)..(sheet.nrows - 1) :
                               r >= 0 /\ is_label(sheet, r, 0, "PUUTTEET JA HUOMAUTUKSET")})
    IN  IF found = None THEN None
        ELSE IF found.n + 1 >= sheet.nrows THEN None
        ELSE IF value_at(sheet, found.n + 1, 15) # None
             THEN result_of_text(characters(Str(value_at(sheet, found.n + 1, 15))))
        ELSE IF is_one(value_at(sheet, found.n + 1, 0)) THEN S("Käyttökunnossa")
        ELSE IF is_one(value_at(sheet, found.n + 1, 1)) THEN S("Korjattava")
        ELSE IF is_one(value_at(sheet, found.n + 1, 2)) THEN S("Ei käyttökunnossa")
        ELSE None

_extract_inspection_result(sheet) ==
    LET found == first_row({r \in (sheet.nrows - 30)..(sheet.nrows - 1) :
                               r >= 0 /\ is_label(sheet, r, 0, "PUUTTEET JA HUOMAUTUKSET")})
    IN  IF found = None THEN None
        ELSE IF found.n + 1 >= sheet.nrows THEN None
        ELSE IF is_one(value_at(sheet, found.n + 1, 0)) THEN S("Käyttökunnossa")
        ELSE IF is_one(value_at(sheet, found.n + 1, 1)) THEN S("Korjattava")
        ELSE IF is_one(value_at(sheet, found.n + 1, 2)) THEN S("Ei käyttökunnossa")
        ELSE IF value_at(sheet, found.n + 1, 15) # None
             THEN result_of_text(characters(Str(value_at(sheet, found.n + 1, 15))))
        ELSE None

----------------------------------------------------------------------------
(* extract_data_from_inspection_file                                       *)

\* what pd.read_excel raises on a file it cannot read
ReadError == [t |-> "ReadError"]

has_valid_data(data) ==
    \/ notna(Get(data, "model"))
    \/ notna(Get(data, "serial_number"))
    \/ Get(data, "inspection_date") # None

\* the exception escaping to the caller instead of the error record
error_raised(e, filename) == e

\* the record of the `except Exception` handler
error_record(e, filename) == [error |-> S(e.t), filename |-> S(filename)]

text_based_record(sheet, filename) ==
    [ inspection_type      |-> _extract_inspection_type(sheet),
      inspection_date      |-> _extract_inspection_date(sheet),
      next_inspection_date |-> _extract_next_inspection_date(sheet),
      manufacturer         |-> _extract_device_info(sheet).manufacturer,
      model                |-> _extract_device_info(sheet).model,
      serial_number        |-> _extract_device_info(sheet).serial_number,
      owner                |-> _extract_device_info(sheet).owner,
      owner_address        |-> _extract_device_info(sheet).owner_address,
      inspection_result    |-> _extract_inspection_result(sheet),
      filename             |-> S(filename) ]

coordinate_record(sheet, data, filename) ==
    [ inspection_type      |-> _extract_inspection_type(sheet),
      inspection_date      |-> Get(data, "inspection_date"),
      next_inspection_date |-> Get(data, "next_inspection_date"),
      kympitys_date        |-> Get(data, "kympitys_date"),
      model                |-> Get(data, "model"),
      serial_number        |-> Get(data, "serial_number"),
      owner                |-> Get(data, "owner"),
      owner_address        |-> None,
      inspection_result    |-> None,
      filename             |-> S(filename) ]

\* the whole call, as a function of the file
extract_data_from_inspection_file(file, filename) ==
    IF ~file.readable THEN error_record(ReadError, filename)
    ELSE IF extract_data_by_coordinates(file) = ValueError THEN error_record(ValueError, filename)
    ELSE IF _extract_inspection_type(file) = IndexError THEN error_record(IndexError, filename)
    ELSE IF has_valid_data(extract_data_by_coordinates(file))
         THEN coordinate_record(file, extract_data_by_coordinates(file), filename)
    ELSE text_based_record(file, filename)

----------------------------------------------------------------------------
(* The inspection files of the model                                       *)

\* the cells the coordinate pass reads: F11, G12, AD6, Y6, AB58, Y58; and S1
CoordinateCells(model, serial, date, owner, year, month, type) ==
    (<<10, 5>> :> model) @@ (<<11, 6>> :> serial) @@ (<<5, 29>> :> date)
        @@ (<<5, 24>> :> owner) @@ (<<57, 27>> :> year) @@ (<<57, 24>> :> month)
        @@ (<<0, 18>> :> type)

\* the result section: its header in column A of row `at`, and below it the
\* three mark cells (columns A, B, C) and the text cell (column P)
ResultSection(at, mark0, mark1, mark2, text) ==
    (<<at, 0>> :> S("PUUTTEET JA HUOMAUTUKSET"))
        @@ (<<at + 1, 0>> :> mark0) @@ (<<at + 1, 1>> :> mark1) @@ (<<at + 1, 2>> :> mark2)
        @@ (<<at + 1, 15>> :> text)

\* the result sections of the model; row 20 is above the last 30 rows of a full form
ResultSections ==
    {ResultSection(40, mark0, mark1, mark2, text) :
        mark0 \in {None, I(1), I(0)}, mark1 \in {None, Fl(1)}, mark2 \in {None, I(1)},
        text \in {None, S("laite on käyttökunnossa"), S("korjattava"), S("ei ole käyttökunnossa")}}
    \cup {ResultSection(20, None, I(1), None, S("korjattava")), empty_dict}

\* what is written beside "Paikka ja pvm"
LabelDateCells ==
    {None, S("15.06.2025/ Helsinki"), S("15.06.2025"), S("31.02.2025/ Helsinki"),
     S("2025-06-15"), S("soon"), D(2025, 6, 15)}

\* a form filled in under its labels
LabelCells(date, result_section) ==
    (<<5, 16>> :> S("Paikka ja pvm")) @@ (<<5, 18>> :> date)
        @@ (<<10, 0>> :> S("NOSTIMEN PERUSTIEDOT")) @@ (<<11, 18>> :> S("Konecranes"))
        @@ (<<12, 2>> :> S("CraneX")) @@ (<<13, 2>> :> S("SN001"))
        @@ (<<12, 18>> :> S("Acme")) @@ (<<13, 18>> :> S("Katu 1"))
        @@ (<<50, 15>> :> S("Seuraava määräaikaistarkastus")) @@ (<<50, 18>> :> D(2026, 6, 1))
        @@ result_section

\* df.shape: a full form, one without column S, one of 12 rows, one of 2 rows, an empty sheet
Shapes == {<<58, 30>>, <<58, 18>>, <<12, 19>>, <<2, 30>>, <<0, 0>>}

ModelCells == {None, S("CraneX")}

SerialCells == {None, S("SN001")}

DateCells ==
    {None, D(2025, 6, 15), D(2024, 2, 29), D(9999, 12, 31), S("15.06.2025"),
     S("15.06.2025/ Helsinki"), S("31.02.2025"), S("2025-06-15"), S("soon"), I(45000)}

OwnerCells == {None, S("Acme")}

YearCells == {None, I(2025), I(0), I(10000), Fl(2025), S("2025"), S(" 2025 "), S("abc")}

MonthCells == {None, I(6), I(12), I(13), I(0), S("6"), S("kesä")}

TypeCells == {None, S("Käyttöönottotarkastus")}

Sheets ==
    {Sheet(sh[1], sh[2], CoordinateCells(m, s, d, o, ym[1], ym[2], ty)) :
        sh \in Shapes, m \in ModelCells, s \in SerialCells, d \in DateCells, o \in OwnerCells,
        ym \in {<<None, None>>, <<I(2025), I(6)>>}, ty \in TypeCells}
    \cup
    {Sheet(sh[1], sh[2], CoordinateCells(m, None, d, None, y, mo, None)) :
        sh \in {<<58, 30>>, <<58, 18>>}, m \in ModelCells, d \in {None, D(2025, 6, 15)},
        y \in YearCells, mo \in MonthCells}
    \cup
    {Sheet(sh[1], sh[2], CoordinateCells(m, None, None, None, None, None, ty)
                            @@ LabelCells(d, ResultSection(40, None, I(1), None, None))) :
        sh \in Shapes, m \in ModelCells, ty \in TypeCells, d \in LabelDateCells}
    \cup
    {Sheet(sh[1], sh[2], CoordinateCells(None, None, None, None, None, None, ty)
                            @@ LabelCells(S("15.06.2025/ Helsinki"), r)) :
        sh \in {<<58, 30>>, <<12, 19>>}, ty \in TypeCells, r \in ResultSections}

InspectionFiles == {Unreadable} \cup Sheets

\* no call of extract_data_from_inspection_file in this behaviour
ExtractionIdle ==
    /\ inspection_file = Unreadable
    /\ xpc = "idle"
    /\ coordinate_data = None
    /\ text_based = FALSE
    /\ extracted = None

----------------------------------------------------------------------------
(* update_customer_registry and the writer, as steps                       *)

OUTPUT_FILE == "Asiakasrekisteri_updated.xlsx"

no_file == [by |-> "nothing", df |-> DataFrame(<<>>)]

not_returned == [path |-> "", results |-> <<>>]

\* the synthetic result carrying the default filename of a per-file result
fatal_unknown(message) ==
    [path |-> "", results |-> <<[status |-> "Error", message |-> S(message), filename |-> S("unknown")]>>]

\* the single synthetic result of a failed run
fatal(message) ==
    [path |-> "", results |-> <<[status |-> "Error", message |-> S(message), filename |-> S("N/A")]>>]

Init ==
    /\ \/ /\ entry = "update_customer_registry"
          /\ regfile = "ok"
          /\ registry \in Registries
          /\ inspection_data \in Batches
          /\ pc = "start"
       \/ /\ entry = "update_customer_registry"
          /\ regfile \in {"missing", "corrupt", "nosheet"}
          /\ registry = <<>>
          /\ inspection_data \in Batches
          /\ pc = "start"
       \/ /\ entry = "_save_updated_registry_with_full_preservation"
          /\ regfile = "ok"
          /\ registry \in Registries
          /\ inspection_data = <<>>
          /\ pc = "save"
    /\ df_existing = DataFrame(registry)
    /\ df_proc = DataFrame(registry)
    /\ same_object = TRUE
    /\ i = 1
    /\ processed_records = <<>>
    /\ found_idxs = <<>>
    /\ primary_attempts = 0
    /\ simple_attempts = 0
    /\ output_file = no_file
    /\ save_raised = FALSE
    /\ ret = not_returned
    /\ ExtractionIdle
    /\ ColumnIdle
    /\ CellIdle

\* every return path of update_customer_registry that does not reach the writer
ReturnFatal(message) ==
    /\ ret' = fatal(message)
    /\ pc' = "done"
    /\ UNCHANGED <<extraction_vars, column_vars, cell_vars, entry, regfile, registry, inspection_data, df_existing, df_proc,
                   same_object, i, processed_records, found_idxs, primary_attempts,
                   simple_attempts, output_file, save_raised>>

RegistryNotFound ==
    /\ pc = "start"
    /\ regfile = "missing"
    /\ ReturnFatal("Customer registry file not found")

LoadWorkbookRaises ==
    /\ pc = "start"
    /\ regfile = "corrupt"
    /\ ReturnFatal("Failed to update registry")

SheetNotFound ==
    /\ pc = "start"
    /\ regfile = "nosheet"
    /\ ReturnFatal("Required sheet 'Kaikki' not found in registry file")

\* reads the sheet into df_existing and enters _process_inspection_data
LoadRegistry ==
    /\ pc = "start"
    /\ regfile = "ok"
    /\ pc' = "process"
    /\ df_existing' = DataFrame(registry)
    /\ df_proc' = DataFrame(registry)
    /\ same_object' = TRUE
    /\ UNCHANGED <<extraction_vars, column_vars, cell_vars, entry, regfile, registry, inspection_data, i, processed_records,
                   found_idxs, primary_attempts, simple_attempts, output_file,
                   save_raised, ret>>

\* one iteration of the loop of _process_inspection_data
Iterate ==
    LET fr == process_record([obj |-> df_existing, loc |-> df_proc, same |-> same_object,
                              results |-> processed_records, found |-> found_idxs],
                             inspection_data[i])
    IN  /\ df_existing' = fr.obj
        /\ df_proc' = fr.loc
        /\ same_object' = fr.same
        /\ processed_records' = fr.results
        /\ found_idxs' = fr.found
        /\ i' = i + 1
        /\ UNCHANGED <<extraction_vars, column_vars, cell_vars, entry, regfile, registry, inspection_data, pc, primary_attempts,
                       simple_attempts, output_file, save_raised, ret>>

ProcessErrorRecord ==
    /\ pc = "process"
    /\ i <= Len(inspection_data)
    /\ "error" \in DOMAIN inspection_data[i]
    /\ Iterate

UpdateExisting ==
    /\ pc = "process"
    /\ i <= Len(inspection_data)
    /\ "error" \notin DOMAIN inspection_data[i]
    /\ _find_existing_device(df_proc, inspection_data[i]) # NotFound
    /\ Iterate

AddNew ==
    /\ pc = "process"
    /\ i <= Len(inspection_data)
    /\ "error" \notin DOMAIN inspection_data[i]
    /\ _find_existing_device(df_proc, inspection_data[i]) = NotFound
    /\ Iterate

\* _process_inspection_data has returned; `if df_existing.empty`
EmptyAfterProcessing ==
    /\ pc = "process"
    /\ i > Len(inspection_data)
    /\ empty(df_existing)
    /\ ReturnFatal("No data to save in registry. DataFrame is empty after processing.")

CallSave ==
    /\ pc = "process"
    /\ i > Len(inspection_data)
    /\ ~empty(df_existing)
    /\ pc' = "save"
    /\ UNCHANGED <<extraction_vars, column_vars, cell_vars, entry, regfile, registry, inspection_data, df_existing, df_proc,
                   same_object, i, processed_records, found_idxs, primary_attempts,
                   simple_attempts, output_file, save_raised, ret>>

\* the writer returns normally to its caller
SaveReturns ==
    /\ pc' = "done"
    /\ save_raised' = FALSE
    /\ ret' = IF entry = "update_customer_registry"
              THEN [path |-> OUTPUT_FILE, results |-> processed_records]
              ELSE ret

\* the writer raises; update_customer_registry catches it in `except Exception`
SaveRaises ==
    /\ pc' = "done"
    /\ save_raised' = TRUE
    /\ ret' = IF entry = "update_customer_registry"
              THEN fatal("Failed to update registry")
              ELSE ret

\* `if df_existing.empty: raise ValueError`, before the try block
SaveEmpty ==
    /\ pc = "save"
    /\ empty(df_existing)
    /\ SaveRaises
    /\ UNCHANGED <<extraction_vars, column_vars, cell_vars, entry, regfile, registry, inspection_data, df_existing, df_proc,
                   same_object, i, processed_records, found_idxs, primary_attempts,
                   simple_attempts, output_file>>

\* what a completed save stores at OUTPUT_FILE
written(by, df) == [by |-> by, df |-> df]

\* cells written, tables updated, workbook.save(OUTPUT_FILE) succeeded
PrimarySaved ==
    /\ pc = "save"
    /\ ~empty(df_existing)
    /\ primary_attempts' = primary_attempts + 1
    /\ output_file' = written("primary", df_existing)
    /\ SaveReturns
    /\ UNCHANGED <<extraction_vars, column_vars, cell_vars, entry, regfile, registry, inspection_data, df_existing, df_proc,
                   same_object, i, processed_records, found_idxs, simple_attempts>>

\* an exception while writing cells that leaves the writer without a fallback
PrimaryWriteAborts ==
    /\ pc = "save"
    /\ ~empty(df_existing)
    /\ primary_attempts' = primary_attempts + 1
    /\ SaveRaises
    /\ UNCHANGED <<extraction_vars, column_vars, cell_vars, entry, regfile, registry, inspection_data, df_existing, df_proc,
                   same_object, i, processed_records, found_idxs, simple_attempts,
                   output_file>>

\* an exception while writing cells: caught by the outer `except Exception`
PrimaryWriteRaises ==
    /\ pc = "save"
    /\ ~empty(df_existing)
    /\ primary_attempts' = primary_attempts + 1
    /\ pc' = "outer_except"
    /\ UNCHANGED <<extraction_vars, column_vars, cell_vars, entry, regfile, registry, inspection_data, df_existing, df_proc,
                   same_object, i, processed_records, found_idxs, simple_attempts,
                   output_file, save_raised, ret>>

\* workbook.save raises: caught by the inner `except Exception`
WorkbookSaveRaises ==
    /\ pc = "save"
    /\ ~empty(df_existing)
    /\ primary_attempts' = primary_attempts + 1
    /\ pc' = "inner_except"
    /\ UNCHANGED <<extraction_vars, column_vars, cell_vars, entry, regfile, registry, inspection_data, df_existing, df_proc,
                   same_object, i, processed_records, found_idxs, simple_attempts,
                   output_file, save_raised, ret>>

\* _save_updated_registry_simple called from the inner handler succeeds
InnerSimpleSaved ==
    /\ pc = "inner_except"
    /\ simple_attempts' = simple_attempts + 1
    /\ output_file' = written("simple", df_existing)
    /\ SaveReturns
    /\ UNCHANGED <<extraction_vars, column_vars, cell_vars, entry, regfile, registry, inspection_data, df_existing, df_proc,
                   same_object, i, processed_records, found_idxs, primary_attempts>>

\* it raises inside the inner handler, which is inside the outer try
InnerSimpleRaises ==
    /\ pc = "inner_except"
    /\ simple_attempts' = simple_attempts + 1
    /\ pc' = "outer_except"
    /\ UNCHANGED <<extraction_vars, column_vars, cell_vars, entry, regfile, registry, inspection_data, df_existing, df_proc,
                   same_object, i, processed_records, found_idxs, primary_attempts,
                   output_file, save_raised, ret>>

\* _save_updated_registry_simple called from the outer handler succeeds
OuterSimpleSaved ==
    /\ pc = "outer_except"
    /\ simple_attempts' = simple_attempts + 1
    /\ output_file' = written("simple", df_existing)
    /\ SaveReturns
    /\ UNCHANGED <<extraction_vars, column_vars, cell_vars, entry, regfile, registry, inspection_data, df_existing, df_proc,
                   same_object, i, processed_records, found_idxs, primary_attempts>>

\* it raises there too: `raise`
OuterSimpleRaises ==
    /\ pc = "outer_except"
    /\ simple_attempts' = simple_attempts + 1
    /\ SaveRaises
    /\ UNCHANGED <<extraction_vars, column_vars, cell_vars, entry, regfile, registry, inspection_data, df_existing, df_proc,
                   same_object, i, processed_records, found_idxs, primary_attempts,
                   output_file>>

Next ==
    \/ RegistryNotFound
    \/ LoadWorkbookRaises
    \/ SheetNotFound
    \/ LoadRegistry
    \/ ProcessErrorRecord
    \/ UpdateExisting
    \/ AddNew
    \/ EmptyAfterProcessing
    \/ CallSave
    \/ SaveEmpty
    \/ PrimarySaved
    \/ PrimaryWriteRaises
    \/ WorkbookSaveRaises
    \/ InnerSimpleSaved
    \/ InnerSimpleRaises
    \/ OuterSimpleSaved
    \/ OuterSimpleRaises

Spec == Init /\ [][Next]_vars

----------------------------------------------------------------------------
(* extract_data_from_inspection_file, as steps                             *)

\* no call of update_customer_registry or of the writer in this behaviour
UpdateIdle(function) ==
    /\ entry = function
    /\ regfile = "ok"
    /\ registry = <<>>
    /\ inspection_data = <<>>
    /\ pc = "idle"
    /\ df_existing = DataFrame(<<>>)
    /\ df_proc = DataFrame(<<>>)
    /\ same_object = TRUE
    /\ i = 1
    /\ processed_records = <<>>
    /\ found_idxs = <<>>
    /\ primary_attempts = 0
    /\ simple_attempts = 0
    /\ output_file = no_file
    /\ save_raised = FALSE
    /\ ret = not_returned

InitExtract ==
    /\ UpdateIdle("extract_data_from_inspection_file")
    /\ ColumnIdle
    /\ CellIdle
    /\ inspection_file \in InspectionFiles
    /\ xpc = "read_excel"
    /\ coordinate_data = None
    /\ text_based = FALSE
    /\ extracted = None

\* the function returns `record`
Return(record) ==
    /\ extracted' = record
    /\ xpc' = "done"
    /\ UNCHANGED <<update_vars, column_vars, cell_vars, inspection_file>>

\* pd.read_excel raises: the `except Exception` handler returns
ReadExcelRaises ==
    /\ xpc = "read_excel"
    /\ ~inspection_file.readable
    /\ Return(error_record(ReadError, FileName(1)))
    /\ UNCHANGED <<coordinate_data, text_based>>

\* the sheet is read and extract_data_by_coordinates returns its dict
CoordinatePass ==
    /\ xpc = "read_excel"
    /\ inspection_file.readable
    /\ extract_data_by_coordinates(inspection_file) # ValueError
    /\ coordinate_data' = extract_data_by_coordinates(inspection_file)
    /\ xpc' = "has_valid_data"
    /\ UNCHANGED <<update_vars, column_vars, cell_vars, inspection_file, text_based, extracted>>

\* extract_data_by_coordinates raises in inspection_date.replace
CoordinatePassRaises ==
    /\ xpc = "read_excel"
    /\ inspection_file.readable
    /\ extract_data_by_coordinates(inspection_file) = ValueError
    /\ Return(error_record(ValueError, FileName(1)))
    /\ UNCHANGED <<coordinate_data, text_based>>

\* `if not has_valid_data`: the five label-based functions, then the record
TextBasedExtraction ==
    /\ xpc = "has_valid_data"
    /\ ~has_valid_data(coordinate_data)
    /\ _extract_inspection_type(inspection_file) # IndexError
    /\ text_based' = TRUE
    /\ Return(text_based_record(inspection_file, FileName(1)))
    /\ UNCHANGED coordinate_data

\* the first of them, _extract_inspection_type, raises IndexError
TextBasedRaises ==
    /\ xpc = "has_valid_data"
    /\ ~has_valid_data(coordinate_data)
    /\ _extract_inspection_type(inspection_file) = IndexError
    /\ text_based' = TRUE
    /\ Return(error_record(IndexError, FileName(1)))
    /\ UNCHANGED coordinate_data

\* `else`: the record of the coordinate values
CoordinateResult ==
    /\ xpc = "has_valid_data"
    /\ has_valid_data(coordinate_data)
    /\ _extract_inspection_type(inspection_file) # IndexError
    /\ Return(coordinate_record(inspection_file, coordinate_data, FileName(1)))
    /\ UNCHANGED <<coordinate_data, text_based>>

\* _extract_inspection_type raises IndexError while that record is built
CoordinateResultRaises ==
    /\ xpc = "has_valid_data"
    /\ has_valid_data(coordinate_data)
    /\ _extract_inspection_type(inspection_file) = IndexError
    /\ Return(error_record(IndexError, FileName(1)))
    /\ UNCHANGED <<coordinate_data, text_based>>

NextExtract ==
    \/ ReadExcelRaises
    \/ CoordinatePass
    \/ CoordinatePassRaises
    \/ TextBasedExtraction
    \/ TextBasedRaises
    \/ CoordinateResult
    \/ CoordinateResultRaises

SpecExtract == InitExtract /\ [][NextExtract]_vars

----------------------------------------------------------------------------
(* col_to_index, as a step                                                 *)

InitColumns ==
    /\ UpdateIdle("col_to_index")
    /\ ExtractionIdle
    /\ CellIdle
    /\ col_letter \in ColumnNames
    /\ index = None

ColToIndex ==
    /\ entry = "col_to_index"
    /\ index = None
    /\ index' = I(col_to_index(col_letter))
    /\ UNCHANGED <<update_vars, extraction_vars, cell_vars, col_letter>>

NextColumns == ColToIndex

SpecColumns == InitColumns /\ [][NextColumns]_vars

----------------------------------------------------------------------------
(* One chain of reads of extract_data_by_coordinates, as steps             *)

\* a chain of the coordinate pass on a sheet, or one call of get_cell_value
InitCells ==
    /\ \/ /\ UpdateIdle("extract_data_by_coordinates")
          /\ lookup \in Lookups
          /\ strategy = "parse_cell_ref"
       \/ /\ UpdateIdle("get_cell_value")
          /\ lookup \in {[name |-> "get_cell_value", row |-> r, col |-> c] :
                            r \in ProbeIndices, c \in ProbeIndices}
          /\ strategy = "call"
    /\ ColumnIdle
    /\ inspection_file \in Sheets
    /\ xpc = "idle"
    /\ coordinate_data = None
    /\ text_based = FALSE
    /\ extracted = None
    /\ reads = <<>>

\* strategy `by` reads every cell of the chain; the next strategy follows when
\* one of the values is None
TryStrategy(by) ==
    /\ LET tried == [k \in 1..Len(lookup.refs) |->
                        read(inspection_file, by, k, resolved(by, lookup, k)[1],
                             resolved(by, lookup, k)[2])]
       IN  /\ reads' = reads \o tried
           /\ strategy' = IF \E k \in 1..Len(tried) : tried[k].value = None
                          THEN next_strategy(by)
                          ELSE "done"
    /\ UNCHANGED <<update_vars, extraction_vars, column_vars, lookup>>

\* row, col = parse_cell_ref(ref); get_cell_value(row, col, label)
ParseCellRef ==
    /\ entry = "extract_data_by_coordinates"
    /\ strategy = "parse_cell_ref"
    /\ TryStrategy("parse_cell_ref")

\* `if value is None`: row, col = alt_parse_cell_ref(ref); get_cell_value(row, col, label)
AltParseCellRef ==
    /\ entry = "extract_data_by_coordinates"
    /\ strategy = "alt_parse_cell_ref"
    /\ TryStrategy("alt_parse_cell_ref")

\* `if value is None`: col = col_to_index(letters); row = n; get_cell_value(row, col, label)
DirectReference ==
    /\ entry = "extract_data_by_coordinates"
    /\ strategy = "direct"
    /\ TryStrategy("direct")

GetCellValue ==
    /\ entry = "get_cell_value"
    /\ strategy = "call"
    /\ reads' = <<read(inspection_file, "call", 1, lookup.row, lookup.col)>>
    /\ strategy' = "done"
    /\ UNCHANGED <<update_vars, extraction_vars, column_vars, lookup>>

NextCells ==
    \/ ParseCellRef
    \/ AltParseCellRef
    \/ DirectReference
    \/ GetCellValue

SpecCells == InitCells /\ [][NextCells]_vars

----------------------------------------------------------------------------
(* Vocabulary of the properties                                            *)

IsUpdateRun == entry = "update_customer_registry" /\ regfile = "ok"

\* _process_inspection_data has returned to update_customer_registry
Processed == IsUpdateRun /\ (pc \in {"save", "inner_except", "outer_except", "done"}
                              \/ (pc = "process" /\ i > Len(inspection_data)))

\* update_customer_registry returned the output path and the per-file results
Succeeded == IsUpdateRun /\ pc = "done" /\ ret.path = OUTPUT_FILE

IsDevice(data) == "error" \notin DOMAIN data

Statuses(results, status) == {k \in 1..Len(results) : results[k].status = status}

\* rows of df whose serial number reads as text serial
RowsWithSerial(df, serial) ==
    {k \in 1..Len(df.rows) : row_text(df.rows[k], "Laitteen sarjanumero") = serial}

----------------------------------------------------------------------------
(* C1: the table written to the output file has as many data rows as the   *)
(* registry had plus one per result with status Added.                     *)
C1_WrittenRowCount ==
    (Succeeded /\ Len(registry) >= 1) =>
        Len(output_file.df.rows) = Len(registry) + Cardinality(Statuses(ret.results, "Added"))

(* C2: registry of the one row SN001 / CraneX, one record SN001 / CraneX   *)
(* inspected on 15 June 2025: one result, Updated; the table keeps its one *)
(* row, whose "Tarkastettu" reads 15.06.2025 (day.month.year), also in the *)
(* written file.                                                           *)
C2_Scenario ==
    /\ IsUpdateRun
    /\ registry = <<RegistryRow(S("SN001"), S("CraneX"))>>
    /\ Len(inspection_data) = 1
    /\ IsDevice(inspection_data[1])
    /\ inspection_data[1].serial_number = S("SN001")
    /\ inspection_data[1].model = S("CraneX")
    /\ inspection_data[1].inspection_date = D(2025, 6, 15)

C2_UpdateScenario ==
    /\ (C2_Scenario /\ Processed) =>
          /\ Len(processed_records) = 1
          /\ processed_records[1].status = "Updated"
          /\ Len(df_existing.rows) = 1
          /\ df_existing.rows[1]["Tarkastettu"] = S("15.06.2025")
    /\ (C2_Scenario /\ output_file # no_file) =>
          /\ Len(output_file.df.rows) = 1
          /\ output_file.df.rows[1]["Tarkastettu"] = S("15.06.2025")
    /\ (C2_Scenario /\ Succeeded) =>
          /\ Len(ret.results) = 1
          /\ ret.results[1].status = "Updated"

C2_Witness ==
    C2_Scenario /\ Succeeded /\ output_file.by = "primary"

(* C3: reconciling a record with a non-empty serial number against the     *)
(* table its own reconciliation produced gives Updated, on the row the     *)
(* first reconciliation wrote, and the same number of rows.                *)
C3_Idempotent ==
    (/\ Processed
     /\ Len(registry) >= 1
     /\ Len(inspection_data) = 1
     /\ IsDevice(inspection_data[1])
     /\ to_find(inspection_data[1], "serial_number") # "") =>
        LET again == _process_inspection_data(df_existing, inspection_data)
            first == IF found_idxs[1] # NotFound THEN found_idxs[1] ELSE Len(registry) + 1
        IN  /\ again.results[1].status = "Updated"
            /\ again.found[1] = first
            /\ Len(again.obj.rows) = Len(df_existing.rows)

(* C4, as claimed: given a row that is the only one with serial S, every   *)
(* record of the batch with serial S whose model is absent or differs from *)
(* the row's model resolves to that row.                                   *)
C4_SerialAlone ==
    pc = "process" =>
    \A k \in 1..Len(df_proc.rows) : \A j \in 1..Len(inspection_data) :
        LET data == inspection_data[j]
            row  == df_proc.rows[k]
            S1   == row_text(row, "Laitteen sarjanumero")
        IN  (/\ IsDevice(data)
             /\ S1 # ""
             /\ RowsWithSerial(df_proc, S1) = {k}
             /\ to_find(data, "serial_number") = S1
             /\ to_find(data, "model") # row_text(row, "Laitteen nimi")) =>
                _find_existing_device(df_proc, data) = k

(* C4, amended: given a row that is the only one with serial S, a record   *)
(* with serial S resolves to that row when its model is absent, the row's  *)
(* model is blank, or the two models are equal; a record whose model       *)
(* differs from the row's non-blank model resolves to no row.              *)
C4_SerialThenModel ==
    pc = "process" =>
    \A k \in 1..Len(df_proc.rows) : \A j \in 1..Len(inspection_data) :
        LET data == inspection_data[j]
            row  == df_proc.rows[k]
            S1   == row_text(row, "Laitteen sarjanumero")
            M1   == row_text(row, "Laitteen nimi")
            M    == to_find(data, "model")
        IN  (/\ IsDevice(data)
             /\ S1 # ""
             /\ RowsWithSerial(df_proc, S1) = {k}
             /\ to_find(data, "serial_number") = S1) =>
                IF M = "" \/ M1 = "" \/ M = M1
                THEN _find_existing_device(df_proc, data) = k
                ELSE _find_existing_device(df_proc, data) = NotFound

\* the loop runs over two records with serial SN001, one with the row's model
\* (found in row 1) and then one with another model, which finds no row
C4_Witness ==
    /\ IsUpdateRun
    /\ pc = "process"
    /\ registry = <<RegistryRow(S("SN001"), S("CraneX"))>>
    /\ Len(inspection_data) = 2
    /\ i = 2
    /\ IsDevice(inspection_data[1]) /\ IsDevice(inspection_data[2])
    /\ inspection_data[1].serial_number = S("SN001") /\ inspection_data[1].model = S("CraneX")
    /\ inspection_data[2].serial_number = S("SN001") /\ inspection_data[2].model = S("CraneY")
    /\ found_idxs = <<1>>
    /\ RowsWithSerial(df_proc, "SN001") = {1}
    /\ _find_existing_device(df_proc, inspection_data[2]) = NotFound

(* C5: two records of the batch whose serial numbers are non-empty and     *)
(* differ as strings are never resolved to the same row of the table.      *)
C5_DifferentSerials ==
    pc = "process" =>
    \A a, b \in 1..Len(inspection_data) :
        (/\ IsDevice(inspection_data[a]) /\ IsDevice(inspection_data[b])
         /\ to_find(inspection_data[a], "serial_number") # ""
         /\ to_find(inspection_data[b], "serial_number") # ""
         /\ to_find(inspection_data[a], "serial_number") # to_find(inspection_data[b], "serial_number")) =>
            \/ _find_existing_device(df_proc, inspection_data[a]) = NotFound
            \/ _find_existing_device(df_proc, inspection_data[a])
                  # _find_existing_device(df_proc, inspection_data[b])

\* records SN001 and 7 were both found, in different rows
C5_Witness ==
    /\ Processed
    /\ Len(inspection_data) = 2
    /\ IsDevice(inspection_data[1]) /\ IsDevice(inspection_data[2])
    /\ inspection_data[1].serial_number = S("SN001")
    /\ inspection_data[2].serial_number = I(7)
    /\ found_idxs[1] # NotFound /\ found_idxs[2] # NotFound
    /\ found_idxs[1] # found_idxs[2]

(* C6: a record without error whose model, serial number and inspection    *)
(* date are all empty gets an Error result with its filename, and the      *)
(* table is left as it was.                                                *)
C6_NoMeaningfulData ==
    \A k \in 1..Len(processed_records) :
        LET data == inspection_data[k]
        IN  (/\ IsDevice(data)
             /\ ~Truthy(Get(data, "model"))
             /\ ~Truthy(Get(data, "serial_number"))
             /\ ~Truthy(Get(data, "inspection_date"))) =>
                /\ processed_records[k].status = "Error"
                /\ processed_records[k].filename = data.filename

(* C7: a record with `error` gets the result (Error, its error text, its   *)
(* filename), the step that handles it leaves the table as it is and goes  *)
(* on to the next record, and every record of the batch gets a result.     *)
C7_ErrorResults ==
    /\ \A k \in 1..Len(processed_records) :
          ~IsDevice(inspection_data[k]) =>
              processed_records[k] = [status   |-> "Error",
                                      message  |-> inspection_data[k].error,
                                      filename |-> inspection_data[k].filename]
    /\ pc = "process" => Len(processed_records) = i - 1
    /\ Processed => Len(processed_records) = Len(inspection_data)

C7_ErrorStep ==
    (/\ pc = "process"
     /\ i <= Len(inspection_data)
     /\ ~IsDevice(inspection_data[i])) =>
        /\ df_existing' = df_existing
        /\ df_proc' = df_proc
        /\ pc' = "process"
        /\ i' = i + 1

C7_ErrorContained == []C7_ErrorResults /\ [][C7_ErrorStep]_vars

\* an error record came first and the record after it was processed
C7_Witness ==
    /\ Processed
    /\ Len(inspection_data) = 2
    /\ ~IsDevice(inspection_data[1])
    /\ IsDevice(inspection_data[2])
    /\ processed_records[1].status = "Error"
    /\ processed_records[2].status = "Updated"

(* C8: a run that succeeds returns one result per record, in the order of  *)
(* the records: the k-th result carries the k-th record's filename.        *)
C8_ResultOrder ==
    Succeeded =>
        /\ Len(ret.results) = Len(inspection_data)
        /\ \A k \in 1..Len(ret.results) :
              ret.results[k].filename = GetOr(inspection_data[k], "filename", S("unknown"))

C8_Witness ==
    /\ Succeeded
    /\ Len(inspection_data) = 2
    /\ ret.results[1].status = "Added"
    /\ ret.results[2].status = "Error"

(* C9: after the batch the updated table holds the original rows at their  *)
(* positions (untouched unless a record updated them), followed by one row *)
(* per Added result, in the order of the records that were added.          *)
\* serial numbers (as text) of the records with status Added, in input order
AddedSerials(results, batch) ==
    LET F[k \in 0..Len(results)] ==
            IF k = 0 THEN <<>>
            ELSE IF results[k].status = "Added"
                 THEN Append(F[k - 1], to_find(batch[k], "serial_number"))
                 ELSE F[k - 1]
    IN  F[Len(results)]

C9_RowOrder ==
    (Processed /\ Len(registry) >= 1) =>
        LET n     == Len(registry)
            added == AddedSerials(processed_records, inspection_data)
        IN  /\ Len(df_existing.rows) = n + Len(added)
            /\ \A k \in 1..n :
                  /\ df_existing.rows[k]["Asiakasnumero"] = registry[k]["Asiakasnumero"]
                  /\ (\A j \in 1..Len(found_idxs) : found_idxs[j] # k) =>
                        df_existing.rows[k] = registry[k]
            /\ \A m \in 1..Len(added) :
                  row_text(df_existing.rows[n + m], "Laitteen sarjanumero") = added[m]

(* C10: nothing is ever stored at the output path from a table without     *)
(* data rows: the writer raises on an empty table and stores nothing, and  *)
(* update_customer_registry returns an empty path with one Error result.   *)
C10_NeverWritesEmpty ==
    /\ output_file # no_file => Len(output_file.df.rows) >= 1
    /\ (pc = "done" /\ regfile = "ok" /\ empty(df_existing)) =>
          /\ output_file = no_file
          /\ entry = "_save_updated_registry_with_full_preservation" => save_raised
          /\ entry = "update_customer_registry" =>
                /\ ret.path = ""
                /\ Len(ret.results) = 1
                /\ ret.results[1].status = "Error"

\* a run over a registry without data rows has returned
C10_Witness ==
    /\ IsUpdateRun
    /\ pc = "done"
    /\ registry = <<>>
    /\ processed_records # <<>>
    /\ ret.path = ""

(* C11: when the registry file is missing or its workbook has no sheet     *)
(* "Kaikki", update_customer_registry returns an empty path and exactly    *)
(* one Error result with filename "N/A"; no record has been reconciled and *)
(* no write has been attempted, at any point of such a run.                *)
C11_RegistryLoadError ==
    (entry = "update_customer_registry" /\ regfile \in {"missing", "nosheet"}) =>
        /\ i = 1
        /\ processed_records = <<>>
        /\ found_idxs = <<>>
        /\ df_proc = DataFrame(<<>>)
        /\ primary_attempts = 0
        /\ simple_attempts = 0
        /\ output_file = no_file
        /\ pc \in {"start", "done"}
        /\ pc = "done" =>
              /\ ret.path = ""
              /\ Len(ret.results) = 1
              /\ ret.results[1].status = "Error"
              /\ ret.results[1].filename = S("N/A")

\* a run on a workbook without the sheet has returned, its batch untouched
C11_Witness ==
    /\ entry = "update_customer_registry"
    /\ regfile = "nosheet"
    /\ pc = "done"
    /\ Len(inspection_data) = 2
    /\ IsDevice(inspection_data[1])
    /\ ret.results[1].filename = S("N/A")

(* C12: on a table with data rows, once the structure-preserving write has *)
(* failed the simple writer is tried with the same table; the writer       *)
(* raises to its caller only after both have failed (the run then returns  *)
(* the fatal result), and when the simple writer succeeds the file holds   *)
(* the table and the run returns the output path with the per-file results.*)
C12_WriteFallback ==
    /\ pc \in {"inner_except", "outer_except"} => primary_attempts = 1 /\ output_file = no_file
    /\ (pc = "done" /\ primary_attempts >= 1 /\ output_file.by # "primary") => simple_attempts >= 1
    /\ (save_raised /\ ~empty(df_existing)) =>
          /\ primary_attempts = 1
          /\ simple_attempts >= 1
          /\ output_file = no_file
          /\ entry = "update_customer_registry" => ret = fatal("Failed to update registry")
    /\ output_file.by = "simple" =>
          /\ pc = "done"
          /\ ~save_raised
          /\ primary_attempts = 1
          /\ output_file.df = df_existing
          /\ entry = "update_customer_registry" =>
                ret = [path |-> OUTPUT_FILE, results |-> processed_records]

\* the cell writing failed and the simple writer saved the file of an update run
C12_Witness ==
    /\ Succeeded
    /\ primary_attempts = 1
    /\ simple_attempts = 1
    /\ output_file.by = "simple"
    /\ Len(ret.results) = Len(inspection_data)

C17_FirstQualifyingRow ==
    pc = "process" =>
    \A j \in 1..Len(inspection_data) :
        LET data == inspection_data[j]
            S1   == to_find(data, "serial_number")
            M    == to_find(data, "model")
            hits == {k \in 1..Len(df_proc.rows) :
                        /\ row_text(df_proc.rows[k], "Laitteen sarjanumero") = S1
                        /\ \/ row_text(df_proc.rows[k], "Laitteen nimi") = ""
                           \/ M = ""
                           \/ row_text(df_proc.rows[k], "Laitteen nimi") = M}
        IN  (IsDevice(data) /\ S1 # "") =>
                /\ hits = {} => _find_existing_device(df_proc, data) = NotFound
                /\ hits # {} =>
                      /\ _find_existing_device(df_proc, data) \in hits
                      /\ \A h \in hits : _find_existing_device(df_proc, data) <= h

\* row 1 has the serial and another model, row 2 the serial and no model:
\* the record passed over row 1 and updated row 2
C17_Witness ==
    /\ Processed
    /\ registry = <<RegistryRow(S("SN001"), S("CraneX")), RegistryRow(S("SN001"), None)>>
    /\ Len(inspection_data) = 1
    /\ IsDevice(inspection_data[1])
    /\ inspection_data[1].serial_number = S("SN001")
    /\ inspection_data[1].model = S("CraneY")
    /\ found_idxs = <<2>>

(* C18: after a batch of one record that updated row k, every column of    *)
(* the table for which the record supplied no value holds in row k what    *)
(* the registry held there.                                                *)
C18_PresentValuesOnly ==
    (/\ Processed
     /\ Len(inspection_data) = 1
     /\ IsDevice(inspection_data[1])
     /\ found_idxs[1] # NotFound) =>
        LET k      == found_idxs[1]
            values == new_data(inspection_data[1], inspection_data[1].filename)
        IN  \A c \in df_existing.columns :
                (c \in DOMAIN values /\ values[c] = None) =>
                    df_existing.rows[k][c] = registry[k][c]

(* C19: the step that adds a record leaves the working table with its      *)
(* columns, one row longer; the new row has those columns, with serial in  *)
(* "Laitteen sarjanumero", model in "Laitteen nimi", owner in "Tilaaja"    *)
(* and "Työmaa", the filename in "Tarkastuspöytäkirja", "Aktiivinen" true, *)
(* and None in every column that is not a populated target column.         *)
PopulatedColumns ==
    {"Aktiivinen", "Tilaaja", "Laitteen nimi", "Laitteen sarjanumero", "Tarkastettu",
     "Seuraava tarkastus", "Seuraava kympitys", "Työmaa", "Tarkastuspöytäkirja"}

InsertedRowAsClaimed(row, data) ==
    /\ {"Laitteen sarjanumero", "Laitteen nimi", "Tilaaja", "Työmaa",
         "Tarkastuspöytäkirja", "Aktiivinen"} \subseteq DOMAIN row
    /\ row["Laitteen sarjanumero"] = Get(data, "serial_number")
    /\ row["Laitteen nimi"] = Get(data, "model")
    /\ row["Tilaaja"] = Get(data, "owner")
    /\ row["Työmaa"] = Get(data, "owner")
    /\ row["Tarkastuspöytäkirja"] = data.filename
    /\ row["Aktiivinen"] = B(TRUE)
    /\ \A c \in DOMAIN row \ PopulatedColumns : row[c] = None

C19_InsertedRow ==
    (/\ pc = "process"
     /\ i > 1
     /\ processed_records[i - 1].status = "Added") =>
        /\ df_proc.columns = DataFrame(registry).columns
        /\ Len(df_proc.rows) = Len(registry) + Cardinality(Statuses(processed_records, "Added"))
        /\ DOMAIN df_proc.rows[Len(df_proc.rows)] = DataFrame(registry).columns
        /\ InsertedRowAsClaimed(df_proc.rows[Len(df_proc.rows)], inspection_data[i - 1])

----------------------------------------------------------------------------
(* Vocabulary of the properties of the parser                              *)

\* the column name in capitals
UpperName(name) == [k \in 1..Len(name) |-> upper(name[k])]

\* the column name before `name` in spreadsheet order: A, ..., Z, AA, AB, ..., ZZ, AAA
RECURSIVE PrecedingName(_)
PrecedingName(name) ==
    LET n    == Len(name)
        last == PositionIn(Uppercase, name[n])
    IN  IF last > 1 THEN [name EXCEPT ![n] = Uppercase[last - 1]]
        ELSE IF \A k \in 1..n : name[k] = "A" THEN [k \in 1..(n - 1) |-> "Z"]
        ELSE Append(PrecedingName(SubSeq(name, 1, n - 1)), "Z")

\* the integer a cell reads as: a number, or a text of digits with blanks around
IntegerIn(cell) ==
    IF cell.t \in {"int", "float"} THEN I(cell.n)
    ELSE IF cell.t = "str" /\ isdigit(strip(characters(cell.s)))
         THEN I(digits_value(strip(characters(cell.s))))
    ELSE None

\* the year cell AB58 and the month cell Y58 of the sheet
YearCell == value_at(inspection_file, 57, 27)

MonthCell == value_at(inspection_file, 57, 24)

\* the sheet with the two kympitys cells empty
WithoutKympitysCells(file) ==
    [file EXCEPT !.cells = [p \in DOMAIN file.cells \ {<<57, 27>>, <<57, 24>>} |-> file.cells[p]]]

Without(record, key) == [k \in DOMAIN record \ {key} |-> record[k]]

\* the coordinate pass has returned its dict
CoordinatesDone == coordinate_data # None

\* the rest of the record: what the same sheet gives with the two cells empty
C14_RestUnaffected ==
    (xpc = "done" /\ inspection_file.readable) =>
        Without(extracted, "kympitys_date")
            = Without(extract_data_from_inspection_file(WithoutKympitysCells(inspection_file),
                                                        FileName(1)),
                      "kympitys_date")

SharedFields ==
    {"inspection_type", "inspection_date", "next_inspection_date", "model",
     "serial_number", "owner", "owner_address", "inspection_result", "filename"}

----------------------------------------------------------------------------
(* C13: col_to_index gives 0 for A, 25 for Z, 26 for AA, 29 for AD, and    *)
(* for every other column name one more than for the name before it in     *)
(* spreadsheet order.                                                      *)
C13_ColumnIndex ==
    index # None =>
        /\ UpperName(col_letter) = <<"A">> => index = I(0)
        /\ UpperName(col_letter) = <<"Z">> => index = I(25)
        /\ UpperName(col_letter) = <<"A", "A">> => index = I(26)
        /\ UpperName(col_letter) = <<"A", "D">> => index = I(29)
        /\ UpperName(col_letter) # <<"A">> =>
              index.n = col_to_index(PrecedingName(UpperName(col_letter))) + 1

C13_Witness ==
    col_letter = <<"A", "D">> /\ index = I(29)

(* C14, as claimed: the coordinate pass yields a kympitys date exactly     *)
(* when the year cell reads as an integer and the month cell as an integer *)
(* in 1..12, and it is then the first day of that month of that year; the  *)
(* rest of the returned record is what it is without the two cells.        *)
C14_KympitysExactly ==
    /\ CoordinatesDone =>
          IF /\ YearCell # None /\ MonthCell # None
             /\ IntegerIn(YearCell) # None
             /\ IntegerIn(MonthCell) # None
             /\ IntegerIn(MonthCell).n \in 1..12
          THEN Get(coordinate_data, "kympitys_date")
                  = D(IntegerIn(YearCell).n, IntegerIn(MonthCell).n, 1)
          ELSE "kympitys_date" \notin DOMAIN coordinate_data
    /\ C14_RestUnaffected

(* C14, amended: the coordinate pass yields a kympitys date exactly when   *)
(* the year cell reads as an integer in 1..9999 and the month cell as an   *)
(* integer in 1..12, and it is then the first day of that month of that    *)
(* year; otherwise there is no kympitys date and no error, and in both     *)
(* cases the rest of the returned record is what it is without the cells.  *)
C14_KympitysValidYear ==
    /\ CoordinatesDone =>
          IF /\ YearCell # None /\ MonthCell # None
             /\ IntegerIn(YearCell) # None
             /\ IntegerIn(YearCell).n \in 1..9999
             /\ IntegerIn(MonthCell) # None
             /\ IntegerIn(MonthCell).n \in 1..12
          THEN Get(coordinate_data, "kympitys_date")
                  = D(IntegerIn(YearCell).n, IntegerIn(MonthCell).n, 1)
          ELSE "kympitys_date" \notin DOMAIN coordinate_data
    /\ C14_RestUnaffected

\* year " 2025 " and month "6", both texts: the record carries 1 June 2025
C14_Witness ==
    /\ xpc = "done"
    /\ inspection_file.readable
    /\ YearCell = S(" 2025 ")
    /\ MonthCell = S("6")
    /\ "kympitys_date" \in DOMAIN extracted
    /\ extracted.kympitys_date = D(2025, 6, 1)

(* C15: every call returns: either a record without `error` that has the   *)
(* nine fields both passes fill and the filename (with kympitys_date from  *)
(* the coordinate pass, manufacturer from the label pass), or a record of  *)
(* exactly `error` and `filename`; an exception inside the call ends in    *)
(* that record, never in the caller.                                       *)
C15_NeverRaises ==
    /\ extracted \notin {ReadError, ValueError, IndexError}
    /\ xpc = "done" =>
          /\ "filename" \in DOMAIN extracted
          /\ extracted.filename = S(FileName(1))
          /\ \/ DOMAIN extracted = {"error", "filename"}
             \/ /\ "error" \notin DOMAIN extracted
                /\ SharedFields \subseteq DOMAIN extracted
                /\ DOMAIN extracted \subseteq SharedFields \cup {"kympitys_date", "manufacturer"}

\* a sheet of fewer than 19 columns that has data in F11 gave the error record
C15_Witness ==
    /\ xpc = "done"
    /\ inspection_file.readable
    /\ inspection_file.ncols < 19
    /\ inspection_file.nrows >= 3
    /\ CoordinatesDone
    /\ DOMAIN extracted = {"error", "filename"}

(* C20: the label-based functions run only after the coordinate pass, and  *)
(* exactly when it yielded none of model, serial_number, inspection_date;  *)
(* when it yielded one of them the returned record has no `error` and its  *)
(* model, serial_number, inspection_date, next_inspection_date,            *)
(* kympitys_date and owner are the values of the coordinate pass.          *)
C20_CoordinateFirst ==
    /\ text_based => CoordinatesDone
    /\ (xpc = "done" /\ CoordinatesDone) =>
          (text_based <=> {"model", "serial_number", "inspection_date"} \cap DOMAIN coordinate_data = {})
    /\ (/\ xpc = "done"
        /\ CoordinatesDone
        /\ {"model", "serial_number", "inspection_date"} \cap DOMAIN coordinate_data # {}) =>
          /\ "error" \notin DOMAIN extracted
          /\ \A key \in {"model", "serial_number", "inspection_date", "next_inspection_date",
                           "kympitys_date", "owner"} :
                Get(extracted, key) = Get(coordinate_data, key)

(* C21: whenever the coordinate pass yields an inspection date d it yields  *)
(* as next inspection date the first day of d's month in the year after    *)
(* d's; when it yields no inspection date it yields no next date.          *)
C21_NextInspectionDate ==
    CoordinatesDone =>
        IF "inspection_date" \in DOMAIN coordinate_data
        THEN /\ "next_inspection_date" \in DOMAIN coordinate_data
             /\ coordinate_data.next_inspection_date
                    = D(coordinate_data.inspection_date.y + 1, coordinate_data.inspection_date.m, 1)
        ELSE "next_inspection_date" \notin DOMAIN coordinate_data

\* 29 February 2024 in AD6: the pass gave 1 February 2025
C21_Witness ==
    /\ CoordinatesDone
    /\ value_at(inspection_file, 5, 29) = D(2024, 2, 29)
    /\ Get(coordinate_data, "inspection_date") = D(2024, 2, 29)
    /\ Get(coordinate_data, "next_inspection_date") = D(2025, 2, 1)

(* C22: in the coordinate pass and in the label-based pass alike, a date   *)
(* cell holding a native date gives that date, a text "dd.mm.yyyy" with or *)
(* without "/ place" after it gives day dd of month mm of year yyyy, any    *)
(* other text gives what generic parsing reads in it, and a text that      *)
(* cannot be read gives no date; a text never ends in an error record.     *)
\* the date the claim gives for a cell
ClaimedDate(cell) ==
    IF cell.t = "date" THEN cell
    ELSE IF cell.t # "str" THEN None
    ELSE LET head == strip(split(characters(cell.s), "/")[1])
         IN  IF date_of_parts(split(head, ".")) # ValueError
             THEN date_of_parts(split(head, "."))
             ELSE IF to_datetime(characters(cell.s)) # ValueError
             THEN to_datetime(characters(cell.s))
             ELSE None

\* the cell AD6, read by the coordinate pass
DateCell == value_at(inspection_file, 5, 29)

\* the label-based pass has returned its record, which found "Paikka ja pvm" in row 6
LabelDateRead ==
    /\ xpc = "done"
    /\ text_based
    /\ "error" \notin DOMAIN extracted
    /\ is_label(inspection_file, 5, 16, "Paikka ja pvm")

C22_CoordinateDates ==
    (CoordinatesDone /\ DateCell.t \in {"date", "str"}) =>
        Get(coordinate_data, "inspection_date") = ClaimedDate(DateCell)

C22_LabelDates ==
    (LabelDateRead /\ value_at(inspection_file, 5, 18).t \in {"date", "str"}) =>
        extracted.inspection_date = ClaimedDate(value_at(inspection_file, 5, 18))

C22_NoErrorRecord ==
    (/\ xpc = "done"
     /\ inspection_file.readable
     /\ DateCell.t = "str" \/ value_at(inspection_file, 5, 18).t = "str"
     /\ "error" \in DOMAIN extracted) =>
        /\ extracted.error = S("IndexError")
        /\ ~in_bounds(inspection_file, 2, 18)

C22_DateParsing ==
    /\ C22_CoordinateDates
    /\ C22_LabelDates
    /\ C22_NoErrorRecord

----------------------------------------------------------------------------
(* Vocabulary of the properties of the result section                      *)

\* the label-based pass has returned its record
LabelRecordReturned ==
    /\ xpc = "done"
    /\ text_based
    /\ "error" \notin DOMAIN extracted

\* the rows among the last 30 of the sheet whose column A carries the section header
HeaderRows ==
    {r \in 0..(inspection_file.nrows - 1) :
        /\ r >= inspection_file.nrows - 30
        /\ is_label(inspection_file, r, 0, "PUUTTEET JA HUOMAUTUKSET")}

\* the row below the first of them
ResultRow == (CHOOSE r \in HeaderRows : \A h \in HeaderRows : r <= h) + 1

\* the columns 0, 1, 2 of that row that hold the value 1
Marks == {c \in {0, 1, 2} : value_at(inspection_file, ResultRow, c) \in {I(1), Fl(1), B(TRUE)}}

Outcome(c) ==
    CASE c = 0 -> S("Käyttökunnossa")
      [] c = 1 -> S("Korjattava")
      [] c = 2 -> S("Ei käyttökunnossa")

\* the free text of that row
ResultText == value_at(inspection_file, ResultRow, 15)

(* C23: with the section header found and no mark below it, a free text    *)
(* containing "ei ole käyttökunnossa" gives Ei käyttökunnossa, one         *)
(* containing "korjattava" gives Korjattava, and one containing            *)
(* "käyttökunnossa" without "ei ole käyttökunnossa" gives Käyttökunnossa.  *)
C23_ResultFromText ==
    (/\ LabelRecordReturned
     /\ HeaderRows # {}
     /\ Marks = {}
     /\ ResultText.t = "str") =>
        LET chars == characters(ResultText.s)
        IN  /\ contains(chars, characters("ei ole käyttökunnossa")) =>
                  extracted.inspection_result = S("Ei käyttökunnossa")
            /\ contains(chars, characters("korjattava")) =>
                  extracted.inspection_result = S("Korjattava")
            /\ (/\ contains(chars, characters("käyttökunnossa"))
                /\ ~contains(chars, characters("ei ole käyttökunnossa"))) =>
                  extracted.inspection_result = S("Käyttökunnossa")

(* C24: a mark has priority over the free text: with the value 1 in column *)
(* 0, 1 or 2 of the row below the section header the result is the outcome *)
(* of the lowest such column, whatever column 15 says; without the header  *)
(* in the last 30 rows the result is nothing.                              *)
C24_MarkPriority ==
    LabelRecordReturned =>
        IF HeaderRows = {} THEN extracted.inspection_result = None
        ELSE Marks # {} =>
                extracted.inspection_result = Outcome(CHOOSE c \in Marks : \A m \in Marks : c <= m)

\* 0 in column A, 1.0 in column B and 1 in column C, beside a text that says
\* käyttökunnossa: the result is Korjattava
C24_Witness ==
    /\ LabelRecordReturned
    /\ HeaderRows = {40}
    /\ value_at(inspection_file, 41, 0) = I(0)
    /\ Marks = {1, 2}
    /\ ResultText = S("laite on käyttökunnossa")
    /\ extracted.inspection_result = S("Korjattava")

----------------------------------------------------------------------------
(* Vocabulary of the properties of the coordinate reads                    *)

\* the behaviour is one chain of reads of the coordinate pass
IsChain == entry = "extract_data_by_coordinates"

\* what a read of (row, col) is to return: the cell, or None when an index is
\* None or negative or beyond the extent of the sheet, or the cell is empty
CellOrNothing(row, col) ==
    IF row = None \/ col = None THEN None
    ELSE IF row.n < 0 \/ col.n < 0 THEN None
    ELSE IF row.n >= inspection_file.nrows \/ col.n >= inspection_file.ncols THEN None
    ELSE IF <<row.n, col.n>> \in DOMAIN inspection_file.cells
         THEN inspection_file.cells[<<row.n, col.n>>]
    ELSE None

StrategyOrder == <<"parse_cell_ref", "alt_parse_cell_ref", "direct">>

\* the reads made by a strategy
ReadsBy(by) == {k \in 1..Len(reads) : reads[k].by = by}

ReturnedNothing(by) == \E k \in ReadsBy(by) : reads[k].value = None

(* C25: every read returns the cell or nothing, never an exception:        *)
(* nothing when the row or column is nothing, negative or beyond the       *)
(* sheet, or the cell is empty. The strategies of a chain run in the order *)
(* parse_cell_ref, alt_parse_cell_ref, direct pair; each runs only after   *)
(* the one before it returned nothing, and does run in that case.          *)
C25_BoundsChecked ==
    /\ \A k \in 1..Len(reads) : reads[k].value = CellOrNothing(reads[k].row, reads[k].col)
    /\ IsChain =>
          /\ \A j, k \in 1..Len(reads) :
                j < k => PositionIn(StrategyOrder, reads[j].by) <= PositionIn(StrategyOrder, reads[k].by)
          /\ \A n \in 2..3 :
                ReadsBy(StrategyOrder[n]) # {} => ReturnedNothing(StrategyOrder[n - 1])
          /\ strategy = "done" =>
                /\ ReadsBy("parse_cell_ref") # {}
                /\ \A n \in 1..2 :
                      ReturnedNothing(StrategyOrder[n]) => ReadsBy(StrategyOrder[n + 1]) # {}

\* the date chain on a sheet without column AD: three reads beyond the sheet,
\* each returning nothing, in the order of the strategies
C25_Witness ==
    /\ IsChain
    /\ strategy = "done"
    /\ lookup.name = "inspection_date"
    /\ inspection_file.ncols = 18
    /\ Len(reads) = 3
    /\ reads[1].col = I(29)
    /\ reads[3].by = "direct"
    /\ reads[3].value = None

(* C26: in every chain the three strategies resolve a reference to one and *)
(* the same (row, column), so that a cell for which parse_cell_ref's read  *)
(* returned nothing gives nothing to the later strategies too.             *)
C26_SameCell ==
    IsChain =>
        /\ \A k \in 1..Len(reads) : reads[k].row # None /\ reads[k].col # None
        /\ \A j, k \in 1..Len(reads) :
              reads[j].at = reads[k].at =>
                  /\ reads[j].row = reads[k].row
                  /\ reads[j].col = reads[k].col
                  /\ (reads[j].by = "parse_cell_ref" /\ reads[j].value = None) =>
                        reads[k].value = None

\* the kympitys chain on a sheet with a year in AB58 and nothing in Y58: all
\* three strategies ran and each found the year and no month
C26_Witness ==
    /\ IsChain
    /\ strategy = "done"
    /\ lookup.name = "kympitys"
    /\ Len(reads) = 6
    /\ reads[1].value # None
    /\ reads[2].value = None
    /\ reads[5].value = reads[1].value
    /\ reads[6].value = None

----------------------------------------------------------------------------
(* C27: after a run that succeeds, for every result with status Updated    *)
(* (the last one, where several records matched one row) the written table *)
(* has the matched row and that row holds the values of the record.        *)
\* the k-th record was the last of the batch to update its row
LastUpdateOfRow(k) ==
    /\ ret.results[k].status = "Updated"
    /\ \A j \in (k + 1)..Len(found_idxs) : found_idxs[j] # found_idxs[k]

\* the row holds every value the record supplies
HoldsValuesOf(df, n, data) ==
    /\ n <= Len(df.rows)
    /\ \A c \in TargetColumns \cap df.columns :
          new_data(data, data.filename)[c] # None => df.rows[n][c] = new_data(data, data.filename)[c]

C27_UpdatedWritten ==
    Succeeded =>
        \A k \in 1..Len(ret.results) :
            LastUpdateOfRow(k) => HoldsValuesOf(output_file.df, found_idxs[k], inspection_data[k])

(* C28: a batch of two records with the same non-empty serial number and   *)
(* the same model, on a registry without that serial number: the first is  *)
(* Added, the second finds the inserted row and is Updated, and the        *)
(* reconciled table holds exactly one row with that serial number.         *)
C28_Scenario ==
    /\ Processed
    /\ Len(inspection_data) = 2
    /\ IsDevice(inspection_data[1]) /\ IsDevice(inspection_data[2])
    /\ to_find(inspection_data[1], "serial_number") # ""
    /\ to_find(inspection_data[1], "serial_number") = to_find(inspection_data[2], "serial_number")
    /\ to_find(inspection_data[1], "model") = to_find(inspection_data[2], "model")
    /\ RowsWithSerial(DataFrame(registry), to_find(inspection_data[1], "serial_number")) = {}

C28_Statuses ==
    C28_Scenario =>
        /\ processed_records[1].status = "Added"
        /\ processed_records[2].status = "Updated"

C28_OneRow ==
    C28_Scenario =>
        Cardinality(RowsWithSerial(df_existing, to_find(inspection_data[1], "serial_number"))) = 1

C28_InsertVisible == C28_Statuses /\ C28_OneRow

(* C29: in one call of the writer the structure-preserving write is        *)
(* started at most once and the simple writer at most once, and the simple *)
(* writer is started only after the structure-preserving write has failed. *)
C29_FallbackAfterFailure ==
    simple_attempts >= 1 => (primary_attempts = 1 /\ output_file.by # "primary")

C29_AttemptsOnce ==
    /\ primary_attempts <= 1
    /\ simple_attempts <= 1
    /\ C29_FallbackAfterFailure

(* C30: the step that updates a row leaves the table with the same number  *)
(* of rows and the same columns, the matched row with the same columns,    *)
(* and every other row exactly as it was; this holds of the working table  *)
(* and of the table the caller holds.                                      *)
SameButRow(before, after, k) ==
    /\ Len(after.rows) = Len(before.rows)
    /\ after.columns = before.columns
    /\ \A n \in 1..Len(before.rows) :
          IF n = k THEN DOMAIN after.rows[n] = DOMAIN before.rows[n]
          ELSE after.rows[n] = before.rows[n]

C30_UpdateStep ==
    (/\ pc = "process"
     /\ i <= Len(inspection_data)
     /\ IsDevice(inspection_data[i])
     /\ _find_existing_device(df_proc, inspection_data[i]) # NotFound) =>
        /\ SameButRow(df_proc, df_proc', _find_existing_device(df_proc, inspection_data[i]))
        /\ SameButRow(df_existing, df_existing', _find_existing_device(df_proc, inspection_data[i]))

C30_UpdateFrame == [][C30_UpdateStep]_vars

\* a registry of two rows, one record: row 1 was updated, row 2 is as it was
C30_Witness ==
    /\ Processed
    /\ Len(registry) = 2
    /\ Len(inspection_data) = 1
    /\ found_idxs = <<1>>
    /\ Len(df_existing.rows) = 2
    /\ df_existing.rows[1] # registry[1]
    /\ df_existing.rows[2] = registry[2]

====
